---- MODULE Spec2Model ----
(***************************************************************************)
(* Model of the epimetheus batch engine: the sequential BatchLoader over   *)
(* a plain pileup stream and the indexed ParallelBatchLoader over a        *)
(* BGZF+Tabix pileup.                                                       *)
(***************************************************************************)
EXTENDS Integers, Sequences, FiniteSets, TLC

\* ------------------------------------------------------------------ bounds
MaxLen == 4          \* longest pileup stream
MaxBatch == 3        \* largest batch_size argument
MaxExtraCalls == 2   \* next() calls made after the iterator has returned None
MaxThreads == 2      \* largest threads argument
MaxRunLen == 3       \* longest pileup of a whole pattern run
MaxCores == 2        \* largest size of the process-wide worker pool
MaxSeqLen == 4       \* longest sequence searched for a motif
MaxMotifLen == 2     \* longest motif searched for
MaxRcLen == 3        \* longest sequence searched in both orientations
MaxCount == 3        \* largest read count of a pileup record or coverage threshold
MaxMotifs == 3       \* longest motif list given to the clustering
MaxContigs == 2      \* most contigs of a BAM file
MaxHits == 2         \* most lines a contig gives
MaxReadLen == 3      \* longest read

\* ------------------------------------------------------------------ data
\* Option<T> is a sequence of length 0 or 1.
None == <<>>
Some(v) == <<v>>

\* Keys of the assembly map handed to both loaders.
Assembly == {"ctg_a", "ctg_b", "ctg_c"}

\* A contig id that occurs in the pileup but not in the assembly.
Missing == "ctg_missing"

\* The pileup lines the streams are built from.  kind is the outcome of
\* reading and filtering the line: "keep" passes the filters, "drop" fails a
\* threshold, "bad" does not parse, "readerr" is a line the reader fails on.
RecordShapes ==
    {[contig |-> "ctg_a", kind |-> "keep", pos |-> 1],
     [contig |-> "ctg_a", kind |-> "keep", pos |-> 2],
     [contig |-> "ctg_a", kind |-> "drop", pos |-> 1],
     [contig |-> "ctg_a", kind |-> "bad", pos |-> 1],
     [contig |-> "ctg_b", kind |-> "keep", pos |-> 1],
     [contig |-> "ctg_b", kind |-> "drop", pos |-> 1],
     [contig |-> "ctg_c", kind |-> "keep", pos |-> 1],
     [contig |-> Missing, kind |-> "keep", pos |-> 1],
     [contig |-> Missing, kind |-> "bad", pos |-> 1],
     [contig |-> "ctg_b", kind |-> "readerr", pos |-> 2]}

\* All streams of at most MaxLen lines.
Streams == UNION {[1..n -> RecordShapes] : n \in 0..MaxLen}

\* Line i of the stream carries the coverage value i, so that every line of a
\* stream is told apart from the others.
Tagged(shapes) ==
    [i \in 1..Len(shapes) |->
        [contig |-> shapes[i].contig, kind |-> shapes[i].kind,
         pos |-> shapes[i].pos, cov |-> i]]

\* Results of next(): Some(Ok(workspace)), Some(Err(e)) and None.
Ok(ws) == [tag |-> "Ok", ws |-> ws, err |-> <<>>]
Err(e) == [tag |-> "Err", ws |-> {}, err |-> e]
NoneResult == [tag |-> "None", ws |-> {}, err |-> <<>>]

\* A fresh Contig copy from the assembly: no methylation attached.
AssemblyContig(id) == [id |-> id, meth |-> {}]

\* Contig::add_methylation_record: one coverage per key, a second one at the
\* same key is rejected.
MethKeys(contig) == {m.pos : m \in contig.meth}
AddMethylationRecord(contig, meth) ==
    IF meth.pos \in MethKeys(contig)
    THEN [ok |-> FALSE, contig |-> contig]
    ELSE [ok |-> TRUE, contig |-> [contig EXCEPT !.meth = @ \cup {meth}]]

\* GenomeWorkspaceBuilder::add_contig: rejects a contig id already present.
BuilderIds(builder) == {c.id : c \in builder}
AddContig(builder, contig) ==
    IF contig.id \in BuilderIds(builder)
    THEN [ok |-> FALSE, builder |-> builder]
    ELSE [ok |-> TRUE, builder |-> builder \cup {contig}]

\* parse_to_methylation_record: Ok(Some(m)), Ok(None) or Err.
ParseToMethylationRecord(record) ==
    CASE record.kind = "keep" -> [tag |-> "Some", meth |-> [pos |-> record.pos, cov |-> record.cov]]
      [] record.kind = "drop" -> [tag |-> "None", meth |-> [pos |-> 0, cov |-> 0]]
      [] OTHER -> [tag |-> "Err", meth |-> [pos |-> 0, cov |-> 0]]

\* ------------------------------------------------------- sequential loader
\* BatchLoader::new without the coercion of a zero batch size.
BatchLoaderNewNoCoerce(reader, size, allow_mismatch) ==
    [reader |-> reader,
     batch_size |-> size,
     allow_mismatch |-> allow_mismatch,
     current_contig_id |-> None,
     current_contig |-> None,
     pending_record |-> None,
     contigs_loaded_in_batch |-> 0]

\* BatchLoader::new
BatchLoaderNew(reader, size, allow_mismatch) ==
    [reader |-> reader,
     batch_size |-> IF size = 0 THEN 1 ELSE size,
     allow_mismatch |-> allow_mismatch,
     current_contig_id |-> None,
     current_contig |-> None,
     pending_record |-> None,
     contigs_loaded_in_batch |-> 0]

\* What one run of the body of next() hands back: the loader as it is left,
\* the value returned, and whether a builder.add_contig call was rejected.
Return(l, res) == [loader |-> l, result |-> res, rejected |-> FALSE]
ReturnRejected(l, res) == [loader |-> l, result |-> res, rejected |-> TRUE]

\* Line 107: the batch is full.
BatchFull(l) == l.contigs_loaded_in_batch = l.batch_size

\* The yield without the reset of the batch counter.
YieldBatchNoReset(l, record) == [l EXCEPT !.pending_record = Some(record)]

\* Lines 108-109: keep the just-read record and reset the counter.
YieldBatch(l, record) ==
    [l EXCEPT !.pending_record = Some(record), !.contigs_loaded_in_batch = 0]

\* Lines 115-116: start a fresh copy of the contig found in the assembly.
StartContig(l, contig_id) ==
    [l EXCEPT !.current_contig_id = Some(contig_id),
              !.current_contig = Some(AssemblyContig(contig_id))]

\* A contig absent from the assembly is never fatal.
MismatchNeverFatal(l) == FALSE

\* Line 120: a contig absent from the assembly is fatal.
MismatchIsFatal(l) == ~l.allow_mismatch

\* The skip that also remembers the id of the absent contig as the current one.
SkipRecordTrackId(l, contig_id) == [l EXCEPT !.current_contig_id = Some(contig_id)]

\* Lines 125-127: the record of an absent contig is skipped.
SkipRecord(l, contig_id) == l

\* The end of stream without the flush of the last contig.
EndOfStreamNoFlush(l, builder) ==
    LET l1 == [l EXCEPT !.current_contig = None]
    IN  IF builder = {}
        THEN Return(l1, NoneResult)
        ELSE Return(l1, Ok(builder))

\* The end of stream without the is_empty test on the built workspace.
EndOfStreamYieldEmpty(l, builder) ==
    LET l1 == [l EXCEPT !.current_contig = None]
        flushed == IF l.current_contig # None
                   THEN AddContig(builder, l.current_contig[1])
                   ELSE [ok |-> TRUE, builder |-> builder]
    IN  IF ~flushed.ok
        THEN ReturnRejected(l1, NoneResult)
        ELSE Return(l1, Ok(flushed.builder))

\* Lines 146-155: flush the last contig and build the workspace.  A rejected
\* add_contig goes through `.ok()?` and makes next() return None.
EndOfStream(l, builder) ==
    LET l1 == [l EXCEPT !.current_contig = None]
        flushed == IF l.current_contig # None
                   THEN AddContig(builder, l.current_contig[1])
                   ELSE [ok |-> TRUE, builder |-> builder]
    IN  IF ~flushed.ok
        THEN ReturnRejected(l1, NoneResult)
        ELSE IF flushed.builder = {}
             THEN Return(l1, NoneResult)
             ELSE Return(l1, Ok(flushed.builder))

RECURSIVE RecordLoop(_, _)
RECURSIVE AttachRecord(_, _, _)

\* Lines 130-144: filter the record and attach it to the current contig.
AttachRecord(l, builder, record) ==
    LET parsed == ParseToMethylationRecord(record)
    IN  CASE parsed.tag = "Err" -> Return(l, Err(<<"Failed to parse pileup record">>))
          [] parsed.tag = "None" -> RecordLoop(l, builder)
          [] OTHER ->
               IF l.current_contig # None
               THEN LET added == AddMethylationRecord(l.current_contig[1], parsed.meth)
                    IN  IF ~added.ok
                        THEN Return(l, Err(<<"Methylation record already exists">>))
                        ELSE RecordLoop([l EXCEPT !.current_contig = Some(added.contig)], builder)
               ELSE RecordLoop(l, builder)

\* Lines 73-145: the loop over the chained records.
RecordLoop(l, builder) ==
    IF l.reader = <<>>
    THEN EndOfStream(l, builder)
    ELSE
    LET record == Head(l.reader)
        l1 == [l EXCEPT !.reader = Tail(@)]
        contig_id == record.contig
    IN  IF record.kind = "readerr"
        THEN Return(l1, Err(<<"Failed to read pileup record">>))
        ELSE IF Some(contig_id) # l1.current_contig_id
        THEN IF contig_id \in Assembly
             THEN IF l1.current_contig # None
                  THEN LET old_contig == l1.current_contig[1]
                           l2 == [l1 EXCEPT !.current_contig = None]
                           added == AddContig(builder, old_contig)
                       IN  IF ~added.ok
                           THEN ReturnRejected(l2, Err(<<"Contig already exists in workspace", old_contig.id>>))
                           ELSE LET l3 == [l2 EXCEPT !.contigs_loaded_in_batch = @ + 1]
                                IN  IF BatchFull(l3)
                                    THEN Return(YieldBatch(l3, record), Ok(added.builder))
                                    ELSE AttachRecord(StartContig(l3, contig_id), added.builder, record)
                  ELSE AttachRecord(StartContig(l1, contig_id), builder, record)
             ELSE IF MismatchIsFatal(l1)
                  THEN Return(l1, Err(<<"Contig not found in assembly", contig_id>>))
                  ELSE RecordLoop(SkipRecord(l1, contig_id), builder)
        ELSE AttachRecord(l1, builder, record)

\* BatchLoader::next: the pending record is taken and chained in front of the
\* reader, the builder starts empty.
BatchLoaderNext(l) ==
    RecordLoop([l EXCEPT !.pending_record = None,
                         !.reader = l.pending_record \o l.reader], {})

\* The stream with the lines of contigs absent from the assembly removed.
RemoveMissing(records) == SelectSeq(records, LAMBDA r : r.contig \in Assembly)

\* ---------------------------------------------------------- indexed loader
Min(a, b) == IF a < b THEN a ELSE b
Take(seq, n) == SubSeq(seq, 1, Min(n, Len(seq)))
Contains(seq, x) == \E i \in 1..Len(seq) : seq[i] = x

\* All records of each contig are contiguous in the stream.
Contiguous(records) ==
    \A i, k \in 1..Len(records) :
        (i < k /\ records[i].contig = records[k].contig)
            => \A j \in i..k : records[j].contig = records[i].contig

\* PileupReader::available_contigs: the sequence names of the index, here in
\* the order of their first line in the file.
AvailableContigs(pileup) ==
    LET first == {i \in 1..Len(pileup) : \A j \in 1..(i - 1) : pileup[j].contig # pileup[i].contig}
        rank(i) == Cardinality({j \in first : j <= i})
    IN  [n \in 1..Cardinality(first) |-> pileup[CHOOSE i \in first : rank(i) = n].contig]

\* PileupReader::query_contig: the lines of one contig; a line the reader
\* fails on fails the query.
QueryContig(pileup, contig) ==
    LET lines == SelectSeq(pileup, LAMBDA r : r.contig = contig)
    IN  IF \E i \in 1..Len(lines) : lines[i].kind = "readerr"
        THEN [ok |-> FALSE, records |-> <<>>]
        ELSE [ok |-> TRUE, records |-> lines]

\* Lines 151-165 of process_contig: parse, filter and attach each line.
RECURSIVE AttachAll(_, _)
AttachAll(contig, records) ==
    IF records = <<>>
    THEN [ok |-> TRUE, contig |-> contig, err |-> <<>>]
    ELSE LET parsed == ParseToMethylationRecord(Head(records))
         IN  CASE parsed.tag = "Err" -> [ok |-> FALSE, contig |-> contig, err |-> <<"Failed to parse pileup record">>]
               [] parsed.tag = "None" -> AttachAll(contig, Tail(records))
               [] OTHER ->
                    LET added == AddMethylationRecord(contig, parsed.meth)
                    IN  IF ~added.ok
                        THEN [ok |-> FALSE, contig |-> contig, err |-> <<"Methylation record already exists">>]
                        ELSE AttachAll(added.contig, Tail(records))

\* process_contig
ProcessContig(pileup, assembly_contig) ==
    LET records == QueryContig(pileup, assembly_contig.id)
    IN  IF ~records.ok
        THEN [ok |-> FALSE, contig |-> assembly_contig, err |-> <<"Failed to read pileup record">>]
        ELSE AttachAll(assembly_contig, records.records)

\* ParallelBatchLoader::new: one reader per thread, batch_size as given.
ParallelBatchLoaderNew(n_threads, size, allow_mismatch) ==
    [readers |-> [i \in 1..n_threads |-> i],
     batch_size |-> size,
     allow_mismatch |-> allow_mismatch,
     processed_contigs |-> None]

Panic == [tag |-> "Panic", ws |-> {}, err |-> <<>>]

\* The batch selection without the filter on the contigs already processed.
NextBatchIdsNoFilter(l, pileup) ==
    LET eligible == SelectSeq(AvailableContigs(pileup),
                              LAMBDA c : IF l.allow_mismatch THEN c \in Assembly ELSE TRUE)
    IN  Take(eligible, l.batch_size)

\* Lines 60-79: the contigs of the index not processed yet, restricted to the
\* assembly when mismatches are allowed, cut to batch_size.
NextBatchIds(l, pileup) ==
    LET contigs_in_pileup == AvailableContigs(pileup)
        contigs_to_be_processed ==
            IF l.processed_contigs # None
            THEN SelectSeq(contigs_in_pileup, LAMBDA c : ~Contains(l.processed_contigs[1], c))
            ELSE contigs_in_pileup
        eligible == SelectSeq(contigs_to_be_processed,
                              LAMBDA c : IF l.allow_mismatch THEN c \in Assembly ELSE TRUE)
    IN  Take(eligible, l.batch_size)

\* The call that, when a worker fails, hands back the workspace of the contigs
\* that were processed.
ParallelBatchLoaderNextPartial(l, pileup) ==
    IF Len(l.readers) = 0
    THEN {[loader |-> l, result |-> Panic]}
    ELSE
    LET batch == NextBatchIds(l, pileup)
        idx == 1..Len(batch)
        worker(i) == ProcessContig(pileup, AssemblyContig(batch[i]))
        done == {i \in idx : batch[i] \in Assembly /\ worker(i).ok}
        builder == {worker(i).contig : i \in done}
        l1 == [l EXCEPT !.processed_contigs =
                           IF @ # None THEN Some(@[1] \o batch) ELSE Some(batch)]
    IN  IF batch = <<>>
        THEN {[loader |-> l, result |-> NoneResult]}
        ELSE {[loader |-> l1, result |-> IF builder = {} THEN NoneResult ELSE Ok(builder)]}

\* ParallelBatchLoader::next: the set of (loader, result) pairs the call can
\* end in.  readers[0] panics on an empty reader list; a worker panics on a
\* contig that is not in the assembly; with several failing workers the
\* parallel collect hands back any one of the failures.
ParallelBatchLoaderNext(l, pileup) ==
    IF Len(l.readers) = 0
    THEN {[loader |-> l, result |-> Panic]}
    ELSE
    LET batch == NextBatchIds(l, pileup)
        idx == 1..Len(batch)
        panics == {i \in idx : batch[i] \notin Assembly}
        worker(i) == ProcessContig(pileup, AssemblyContig(batch[i]))
        fails == {i \in idx \ panics : ~worker(i).ok}
    IN  IF batch = <<>>
        THEN {[loader |-> l, result |-> NoneResult]}
        ELSE IF panics \cup fails # {}
        THEN {[loader |-> l, result |-> Panic] : i \in panics}
               \cup {[loader |-> l, result |-> Err(worker(i).err)] : i \in fails}
        ELSE LET processed == [i \in idx |-> batch[i]]
                 builder == {worker(i).contig : i \in idx}
                 l1 == [l EXCEPT !.processed_contigs =
                                    IF @ # None THEN Some(@[1] \o processed) ELSE Some(processed)]
             IN  {[loader |-> l1, result |-> IF builder = {} THEN NoneResult ELSE Ok(builder)]}

\* ------------------------------------------------------------ state machine
VARIABLES
    stream,            \* the pileup lines given to the loader
    batch_size,        \* the batch_size argument of the loader's constructor
    loader,            \* the BatchLoader
    results,           \* what the next() calls have returned so far
    rejected,          \* the last next() call had an add_contig rejected
    filtered,          \* a BatchLoader over RemoveMissing(stream)
    filtered_results,
    unit,              \* a BatchLoader over stream built with batch_size 1
    unit_results,
    threads,           \* the threads argument of ParallelBatchLoader::new
    par,               \* the ParallelBatchLoader
    par_results,       \* what its next() calls have returned so far
    par_unit,          \* a ParallelBatchLoader built with batch_size 1
    par_unit_results,
    motifs,            \* the motif list given by the user
    strategy,          \* the loader the pattern run reads the pileup with
    pc,                \* where the driver of the pattern run stands
    rows,              \* methylation_pattern_results
    output,            \* what has been written to the output file
    variant,           \* which per-contig parallel map is running
    cores,             \* size of the process-wide worker pool
    task,              \* the closure calls of the parallel map, one per contig
    reader_lock,       \* per reader: the task that holds it, 0 when free
    find_sequence,     \* the sequence given to find_motif_indices_in_sequence
    find_motif,        \* the motif given to it
    indices,           \* what it returned: none yet, or the vector of indices
    rc_motif_indices,    \* what the search of the sequence for rc(motif) returned
    rc_sequence_indices, \* what the search of rc(sequence) for the motif returned
    pileup_record,   \* the counts of the pileup record being filtered
    thresholds,   \* min_valid_read_coverage and min_valid_cov_to_diff_fraction
    attached,   \* the coverages attached to the contig of the record
    filter_pc,  \* pending, or what became of the record and in which loader
    cluster_input,   \* the motif list given to motif_clustering
    overflow_checks,   \* the build panics on integer overflow (debug profile)
    edit,   \* the last edit_distance call: its two motifs and its result
    first_run,   \* what motif_clustering made of the motif list
    second_run,  \* what it made of the representatives of the first run
    hits_per_contig,   \* number of lines each contig of the BAM file gives
    contig_workers,   \* where the closure call of each contig is
    line_channel,   \* lines sent and not yet received
    sender_dropped,   \* the sender of the channel has been dropped
    receiver_dropped,   \* the receiver of the channel has been dropped
    writer_thread,   \* the writer thread
    output_file,   \* the output file
    extract_pc,  \* where extract_read_methylation_pattern is, or what it returned
    read_strand,   \* strand of the mapping of the read
    usize_checks,   \* the build checks arithmetic overflow
    motif_hits   \* the hits of the motif in the read with their start indices

seq_vars == <<loader, results, rejected, filtered, filtered_results, unit, unit_results>>
par_vars == <<threads, par, par_results, par_unit, par_unit_results>>
run_vars == <<motifs, strategy, pc, rows, output>>
work_vars == <<variant, cores, task, reader_lock>>
find_vars == <<find_sequence, find_motif, indices, rc_motif_indices, rc_sequence_indices>>
filter_vars == <<pileup_record, thresholds, attached, filter_pc>>
cluster_vars == <<cluster_input, overflow_checks, edit, first_run, second_run>>
extract_vars == <<hits_per_contig, contig_workers, line_channel, sender_dropped, receiver_dropped, writer_thread, output_file, extract_pc>>
start_vars == <<read_strand, usize_checks, motif_hits>>
vars == <<stream, batch_size, seq_vars, par_vars, run_vars, work_vars, find_vars, filter_vars, cluster_vars, extract_vars, start_vars>>

\* No pattern run is going on: only a loader is exercised.
NoRun ==
    /\ motifs = <<>>
    /\ strategy = "none"
    /\ pc = "idle"
    /\ rows = <<>>
    /\ output = [header |-> FALSE, rows |-> <<>>]

\* No parallel map is under way.
NoWorkers ==
    /\ variant = "none"
    /\ cores = 0
    /\ task = <<>>
    /\ reader_lock = <<>>

\* No motif search is under way.
NoFind ==
    /\ find_sequence = <<>>
    /\ find_motif = None
    /\ indices = None
    /\ rc_motif_indices = None
    /\ rc_sequence_indices = None

\* No pileup record is being filtered.
NoFilter ==
    /\ pileup_record = None
    /\ thresholds = None
    /\ attached = {}
    /\ filter_pc = [by |-> "none", outcome |-> "idle"]

\* No motif list is being clustered.
NoCluster ==
    /\ cluster_input = <<>>
    /\ overflow_checks = FALSE
    /\ edit = None
    /\ first_run = None
    /\ second_run = None

\* No read-level extraction is going on.
NoExtract ==
    /\ hits_per_contig = <<>>
    /\ contig_workers = <<>>
    /\ line_channel = <<>>
    /\ sender_dropped = FALSE
    /\ receiver_dropped = FALSE
    /\ writer_thread = [pc |-> "idle", result |-> "none", buffer |-> <<>>]
    /\ output_file = [exists |-> FALSE, lines |-> <<>>]
    /\ extract_pc = "idle"

\* No motif start is being computed.
NoStart ==
    /\ read_strand = "none"
    /\ usize_checks = FALSE
    /\ motif_hits = None

Last(s) == s[Len(s)]
Failed(rs) == rs # <<>> /\ Last(rs).tag = "Err"
Panicked(rs) == rs # <<>> /\ Last(rs).tag = "Panic"
Finished(rs) == rs # <<>> /\ Last(rs).tag = "None"
NoneCalls(rs) == Cardinality({i \in 1..Len(rs) : rs[i].tag = "None"})

\* The run over a plain pileup: the sequential loader is constructed, the
\* indexed one is not in use.
Init ==
    /\ stream \in {Tagged(s) : s \in Streams}
    /\ batch_size \in 0..MaxBatch
    /\ \E allow_mismatch \in BOOLEAN :
          /\ loader = BatchLoaderNew(stream, batch_size, allow_mismatch)
          /\ filtered = BatchLoaderNew(RemoveMissing(stream), batch_size, allow_mismatch)
          /\ unit = BatchLoaderNew(stream, 1, allow_mismatch)
    /\ results = <<>>
    /\ rejected = FALSE
    /\ filtered_results = <<>>
    /\ unit_results = <<>>
    /\ threads = 1
    /\ par = ParallelBatchLoaderNew(0, 0, FALSE)
    /\ par_unit = ParallelBatchLoaderNew(0, 0, FALSE)
    /\ par_results = <<>>
    /\ par_unit_results = <<>>
    /\ NoRun
    /\ NoFind
    /\ NoWorkers
    /\ NoFilter
    /\ NoCluster
    /\ NoExtract
    /\ NoStart

\* One pass of the driver loop: a call of next_batch().  The loop stops at the
\* first Err; after None the iterator is still there to be called.  The three
\* loaders are called in lockstep.
NextBatch ==
    /\ ~Failed(results)
    /\ NoneCalls(results) <= MaxExtraCalls
    /\ LET r == BatchLoaderNext(loader)
       IN  /\ loader' = r.loader
           /\ results' = Append(results, r.result)
           /\ rejected' = r.rejected
    /\ IF Failed(filtered_results)
       THEN UNCHANGED <<filtered, filtered_results>>
       ELSE LET f == BatchLoaderNext(filtered)
            IN  /\ filtered' = f.loader
                /\ filtered_results' = Append(filtered_results, f.result)
    /\ IF Failed(unit_results)
       THEN UNCHANGED <<unit, unit_results>>
       ELSE LET u == BatchLoaderNext(unit)
            IN  /\ unit' = u.loader
                /\ unit_results' = Append(unit_results, u.result)
    /\ UNCHANGED <<find_vars, filter_vars, cluster_vars, extract_vars, start_vars, stream, batch_size, par_vars, run_vars, work_vars>>

Next == NextBatch

Spec == Init /\ [][Next]_vars

\* The run over a BGZF+Tabix pileup, whose lines are grouped by contig: the
\* indexed loader is constructed, the sequential one is not in use.
InitIndexed ==
    /\ stream \in {Tagged(s) : s \in {t \in Streams : Contiguous(t)}}
    /\ batch_size \in 0..MaxBatch
    /\ threads \in 0..MaxThreads
    /\ \E allow_mismatch \in BOOLEAN :
          /\ par = ParallelBatchLoaderNew(threads, batch_size, allow_mismatch)
          /\ par_unit = ParallelBatchLoaderNew(threads, 1, allow_mismatch)
    /\ par_results = <<>>
    /\ par_unit_results = <<>>
    /\ loader = BatchLoaderNew(<<>>, 1, FALSE)
    /\ filtered = BatchLoaderNew(<<>>, 1, FALSE)
    /\ unit = BatchLoaderNew(<<>>, 1, FALSE)
    /\ results = <<>>
    /\ rejected = FALSE
    /\ filtered_results = <<>>
    /\ unit_results = <<>>
    /\ NoRun
    /\ NoFind
    /\ NoWorkers
    /\ NoFilter
    /\ NoCluster
    /\ NoExtract
    /\ NoStart

\* One pass of the driver loop over the indexed loader; a panic ends the
\* process.  The loader built with batch_size 1 is called in lockstep.
NextBatchIndexed ==
    /\ ~Failed(par_results) /\ ~Panicked(par_results)
    /\ NoneCalls(par_results) <= MaxExtraCalls
    /\ \E r \in ParallelBatchLoaderNext(par, stream) :
          /\ par' = r.loader
          /\ par_results' = Append(par_results, r.result)
    /\ IF Failed(par_unit_results) \/ Panicked(par_unit_results)
       THEN UNCHANGED <<par_unit, par_unit_results>>
       ELSE \E u \in ParallelBatchLoaderNext(par_unit, stream) :
              /\ par_unit' = u.loader
              /\ par_unit_results' = Append(par_unit_results, u.result)
    /\ UNCHANGED <<find_vars, filter_vars, cluster_vars, extract_vars, start_vars, stream, batch_size, threads, seq_vars, run_vars, work_vars>>

NextIndexed == NextBatchIndexed

SpecIndexed == InitIndexed /\ [][NextIndexed]_vars

\* ------------------------------------------------------------- pattern run
\* Motif: sequence string, mod_type and mod_position.
Motif(sequence, mod_type, mod_position) ==
    [sequence |-> sequence, mod_type |-> mod_type, mod_position |-> mod_position]

\* The motif lists a run is given.
MotifLists ==
    {<<Motif("GATC", "a", 1), Motif("RGATCY", "a", 2)>>,
     <<Motif("RGATCY", "a", 2), Motif("GATC", "a", 1)>>,
     <<Motif("GATC", "m", 3), Motif("GATC", "a", 1)>>}

\* The byte order of the strings in use: contig ids and motif sequences.
StrRank(str) ==
    CASE str = "GATC" -> 1
      [] str = "RGATCY" -> 2
      [] str = "ctg_a" -> 3
      [] str = "ctg_b" -> 4
      [] str = "ctg_c" -> 5
      [] str = "ctg_missing" -> 6

\* The pileups of a pattern run, grouped by contig.
RunStreams ==
    {t \in UNION {[1..n -> RecordShapes] : n \in 0..MaxRunLen} : Contiguous(t)}

\* The orders in which the contigs of a workspace can come out of the
\* parallel calculation.
Orders(ws) ==
    {o \in [1..Cardinality(ws) -> ws] : \A i, j \in 1..Cardinality(ws) : i # j => o[i] # o[j]}

\* The summary rows of one contig: one per motif, in motif list order.  The
\* statistics of a row are a function of the contig's coverage map.
MotifRows(contig, motif_list) ==
    [k \in 1..Len(motif_list) |->
        [contig |-> contig.id, motif |-> motif_list[k], obs |-> contig.meth]]

\* calculate_contig_read_methylation_pattern over the contigs in the order
\* they complete.
RECURSIVE CalculateContigReadMethylationPattern(_, _)
CalculateContigReadMethylationPattern(contigs, motif_list) ==
    IF contigs = <<>>
    THEN <<>>
    ELSE MotifRows(Head(contigs), motif_list)
            \o CalculateContigReadMethylationPattern(Tail(contigs), motif_list)

\* The place of a row in a sorted sequence: behind every row whose contig
\* does not compare greater.
InsertByContig(sorted, row) ==
    LET k == Cardinality({i \in 1..Len(sorted) : StrRank(sorted[i].contig) <= StrRank(row.contig)})
    IN  SubSeq(sorted, 1, k) \o <<row>> \o SubSeq(sorted, k + 1, Len(sorted))

\* The rows left in the order of their accumulation.
SortByContigNoSort(pattern_results) == pattern_results

\* Line 133: sort_by(|a, b| a.contig.cmp(&b.contig)), a stable sort.
RECURSIVE SortByContig(_)
SortByContig(pattern_results) ==
    IF pattern_results = <<>>
    THEN <<>>
    ELSE InsertByContig(SortByContig(SubSeq(pattern_results, 1, Len(pattern_results) - 1)),
                        pattern_results[Len(pattern_results)])

\* The pattern run over one pileup, read by the loader set_reader_strategy
\* picks: the sequential one for a plain file, the indexed one for BGZF+Tabix.
InitRun ==
    /\ stream \in {Tagged(s) : s \in RunStreams}
    /\ batch_size \in 0..MaxBatch
    /\ threads \in 0..MaxThreads
    /\ motifs \in MotifLists
    /\ strategy \in {"sequential", "indexed"}
    /\ \E allow_mismatch \in BOOLEAN :
          /\ loader = IF strategy = "sequential"
                      THEN BatchLoaderNew(stream, batch_size, allow_mismatch)
                      ELSE BatchLoaderNew(<<>>, 1, allow_mismatch)
          /\ par = IF strategy = "indexed"
                   THEN ParallelBatchLoaderNew(threads, batch_size, allow_mismatch)
                   ELSE ParallelBatchLoaderNew(0, 0, allow_mismatch)
    /\ filtered = BatchLoaderNew(<<>>, 1, FALSE)
    /\ unit = BatchLoaderNew(<<>>, 1, FALSE)
    /\ par_unit = ParallelBatchLoaderNew(0, 0, FALSE)
    /\ results = <<>>
    /\ rejected = FALSE
    /\ filtered_results = <<>>
    /\ unit_results = <<>>
    /\ par_results = <<>>
    /\ par_unit_results = <<>>
    /\ pc = "loop"
    /\ rows = <<>>
    /\ output = [header |-> FALSE, rows |-> <<>>]
    /\ NoWorkers
    /\ NoFind
    /\ NoFilter
    /\ NoCluster
    /\ NoExtract
    /\ NoStart

\* The loop leaving by break on an error as it does at the end of the input.
LoopPassBreakOnError(result) ==
    IF result.tag = "Ok"
    THEN /\ \E order \in Orders(result.ws) :
              rows' = rows \o CalculateContigReadMethylationPattern(order, motifs)
         /\ pc' = "loop"
    ELSE /\ rows' = rows
         /\ pc' = CASE result.tag = "Err" -> "write"
                    [] result.tag = "None" -> "write"
                    [] OTHER -> "panicked"

\* Lines 77-103: what the loop does with the result of next_batch().
LoopPass(result) ==
    IF result.tag = "Ok"
    THEN /\ \E order \in Orders(result.ws) :
              rows' = rows \o CalculateContigReadMethylationPattern(order, motifs)
         /\ pc' = "loop"
    ELSE /\ rows' = rows
         /\ pc' = CASE result.tag = "Err" -> "failed"
                    [] result.tag = "None" -> "write"
                    [] OTHER -> "panicked"

\* One pass of the loop of lines 75-104 over the sequential loader.
RunNextBatch ==
    /\ pc = "loop"
    /\ strategy = "sequential"
    /\ LET r == BatchLoaderNext(loader)
       IN  /\ loader' = r.loader
           /\ results' = Append(results, r.result)
           /\ rejected' = r.rejected
           /\ LoopPass(r.result)
    /\ UNCHANGED <<find_vars, filter_vars, cluster_vars, extract_vars, start_vars, stream, batch_size, par_vars, motifs, strategy, output,
                   filtered, filtered_results, unit, unit_results, work_vars>>

\* One pass of the loop of lines 75-104 over the indexed loader.
RunNextBatchIndexed ==
    /\ pc = "loop"
    /\ strategy = "indexed"
    /\ \E r \in ParallelBatchLoaderNext(par, stream) :
          /\ par' = r.loader
          /\ par_results' = Append(par_results, r.result)
          /\ LoopPass(r.result)
    /\ UNCHANGED <<find_vars, filter_vars, cluster_vars, extract_vars, start_vars, stream, batch_size, seq_vars, threads, par_unit, par_unit_results,
                   motifs, strategy, output, work_vars>>

\* Lines 133-165: after the loop the rows are sorted, then the header and
\* the rows are written.
WriteOutput ==
    /\ pc = "write"
    /\ output' = [header |-> TRUE, rows |-> SortByContig(rows)]
    /\ pc' = "done"
    /\ UNCHANGED <<find_vars, filter_vars, cluster_vars, extract_vars, start_vars, stream, batch_size, seq_vars, par_vars, motifs, strategy, rows, work_vars>>

NextRun == RunNextBatch \/ RunNextBatchIndexed \/ WriteOutput

SpecRun == InitRun /\ [][NextRun]_vars

\* ------------------------------------------------------- the two loaders
\* A loop has left its loader: on an error, on None, or on a panic.
Ended(rs) == Failed(rs) \/ Finished(rs) \/ Panicked(rs)

\* The same pileup content read twice with the same arguments: as a plain
\* stream by the sequential loader and in its BGZF+Tabix form by the indexed
\* loader.
InitBoth ==
    /\ stream \in {Tagged(s) : s \in RunStreams}
    /\ batch_size \in 0..MaxBatch
    /\ threads \in 0..MaxThreads
    /\ \E allow_mismatch \in BOOLEAN :
          /\ loader = BatchLoaderNew(stream, batch_size, allow_mismatch)
          /\ par = ParallelBatchLoaderNew(threads, batch_size, allow_mismatch)
    /\ filtered = BatchLoaderNew(<<>>, 1, FALSE)
    /\ unit = BatchLoaderNew(<<>>, 1, FALSE)
    /\ par_unit = ParallelBatchLoaderNew(0, 0, FALSE)
    /\ results = <<>>
    /\ rejected = FALSE
    /\ filtered_results = <<>>
    /\ unit_results = <<>>
    /\ par_results = <<>>
    /\ par_unit_results = <<>>
    /\ NoRun
    /\ NoFind
    /\ NoWorkers
    /\ NoFilter
    /\ NoCluster
    /\ NoExtract
    /\ NoStart

\* One pass of each of the two driver loops that has not ended.
NextBatchBoth ==
    /\ ~Ended(results) \/ ~Ended(par_results)
    /\ IF Ended(results)
       THEN UNCHANGED <<loader, results, rejected>>
       ELSE LET r == BatchLoaderNext(loader)
            IN  /\ loader' = r.loader
                /\ results' = Append(results, r.result)
                /\ rejected' = r.rejected
    /\ IF Ended(par_results)
       THEN UNCHANGED <<par, par_results>>
       ELSE \E r \in ParallelBatchLoaderNext(par, stream) :
               /\ par' = r.loader
               /\ par_results' = Append(par_results, r.result)
    /\ UNCHANGED <<find_vars, filter_vars, cluster_vars, extract_vars, start_vars, stream, batch_size, threads, filtered, filtered_results,
                   unit, unit_results, par_unit, par_unit_results, run_vars, work_vars>>

NextBoth == NextBatchBoth

SpecBoth == InitBoth /\ [][NextBoth]_vars

\* ------------------------------------------------------------ parallel map
\* The per-contig parallel map: in ParallelBatchLoader::next over a pool of
\* mutex-guarded readers ("mutex"), in the variant with one reader per worker
\* thread ("thread_local"), and in the variant where every closure call opens
\* a reader of its own ("own_reader").  The pool built from `threads` is
\* never installed, so the map runs on the process-wide pool of `cores`
\* worker threads.

\* Line 92: reader_index = i % readers_mutex.len(), for the i-th task.
ReaderIndex(i, n_readers) == ((i - 1) % n_readers) + 1

PendingTask == [pc |-> "pending", thread |-> 0, reader |-> 0]

\* A worker thread runs one closure call at a time.
Busy(t) == \E i \in DOMAIN task : task[i].thread = t /\ task[i].pc \notin {"pending", "done", "failed"}

\* The guard is dropped: the reader the task holds is free again.
Release(locks, i) == [r \in DOMAIN locks |-> IF locks[r] = i THEN 0 ELSE locks[r]]

\* The guard dropped as soon as the query has been issued.
GuardAfterFetchDropped(locks, i) == Release(locks, i)

\* Lines 93-103: the guard lives to the end of the closure.
GuardAfterFetch(locks, i) == locks

InitWorkers ==
    /\ variant \in {"mutex", "thread_local", "own_reader"}
    /\ cores \in 1..MaxCores
    /\ threads \in 0..MaxThreads
    /\ \E n \in 0..MaxBatch : task = [i \in 1..n |-> PendingTask]
    /\ reader_lock = CASE variant = "mutex" -> [r \in 1..threads |-> 0]
                       [] variant = "thread_local" -> [t \in 1..cores |-> 0]
                       [] OTHER -> <<>>
    /\ stream = <<>>
    /\ batch_size = 0
    /\ loader = BatchLoaderNew(<<>>, 1, FALSE)
    /\ filtered = BatchLoaderNew(<<>>, 1, FALSE)
    /\ unit = BatchLoaderNew(<<>>, 1, FALSE)
    /\ results = <<>>
    /\ rejected = FALSE
    /\ filtered_results = <<>>
    /\ unit_results = <<>>
    /\ par = ParallelBatchLoaderNew(0, 0, FALSE)
    /\ par_unit = ParallelBatchLoaderNew(0, 0, FALSE)
    /\ par_results = <<>>
    /\ par_unit_results = <<>>
    /\ NoRun
    /\ NoFind
    /\ NoFilter
    /\ NoCluster
    /\ NoExtract
    /\ NoStart

\* A free worker thread of the pool takes a closure call of the map.  With no
\* reader at all the mutex variant never gets to the map (readers[0] panics).
StartTask ==
    /\ variant = "mutex" => threads >= 1
    /\ \E i \in DOMAIN task, t \in 1..cores :
          /\ task[i].pc = "pending"
          /\ ~Busy(t)
          /\ task' = [task EXCEPT ![i] = [pc |-> "start", thread |-> t, reader |-> 0]]
    /\ UNCHANGED <<find_vars, filter_vars, cluster_vars, extract_vars, start_vars, stream, batch_size, seq_vars, par_vars, run_vars, variant, cores, reader_lock>>

\* Lines 92-93: lock the mutex of reader i % len; the call blocks while the
\* mutex is held.
LockReader ==
    /\ variant = "mutex"
    /\ \E i \in DOMAIN task :
          LET reader_index == ReaderIndex(i, Len(reader_lock))
          IN  /\ task[i].pc = "start"
              /\ reader_lock[reader_index] = 0
              /\ reader_lock' = [reader_lock EXCEPT ![reader_index] = i]
              /\ task' = [task EXCEPT ![i].pc = "fetch", ![i].reader = reader_index]
    /\ UNCHANGED <<find_vars, filter_vars, cluster_vars, extract_vars, start_vars, stream, batch_size, seq_vars, par_vars, run_vars, variant, cores>>

\* reader.rs lines 53-61: borrow the reader of the worker thread the call
\* runs on, opening it at first use.
BorrowReader ==
    /\ variant = "thread_local"
    /\ \E i \in DOMAIN task :
          /\ task[i].pc = "start"
          /\ reader_lock[task[i].thread] = 0
          /\ reader_lock' = [reader_lock EXCEPT ![task[i].thread] = i]
          /\ task' = [task EXCEPT ![i].pc = "fetch", ![i].reader = task[i].thread]
    /\ UNCHANGED <<find_vars, filter_vars, cluster_vars, extract_vars, start_vars, stream, batch_size, seq_vars, par_vars, run_vars, variant, cores>>

\* parallel_processer.rs line 42: the call opens a reader of its own.
OpenReader ==
    /\ variant = "own_reader"
    /\ \E i \in DOMAIN task :
          /\ task[i].pc = "start"
          /\ task' = [task EXCEPT ![i].pc = "fetch", ![i].reader = i]
    /\ UNCHANGED <<find_vars, filter_vars, cluster_vars, extract_vars, start_vars, stream, batch_size, seq_vars, par_vars, run_vars, variant, cores, reader_lock>>

\* query_contig lines 50-59: look the contig up and fetch its region.
FetchContig ==
    /\ \E i \in DOMAIN task :
          /\ task[i].pc = "fetch"
          /\ task' = [task EXCEPT ![i].pc = "drain"]
          /\ reader_lock' = GuardAfterFetch(reader_lock, i)
    /\ UNCHANGED <<find_vars, filter_vars, cluster_vars, extract_vars, start_vars, stream, batch_size, seq_vars, par_vars, run_vars, variant, cores>>

\* query_contig lines 64-69: read the records of the region off the reader.
DrainRecords ==
    /\ \E i \in DOMAIN task :
          /\ task[i].pc = "drain"
          /\ task' = [task EXCEPT ![i].pc = "attach"]
    /\ UNCHANGED <<find_vars, filter_vars, cluster_vars, extract_vars, start_vars, stream, batch_size, seq_vars, par_vars, run_vars, variant, cores, reader_lock>>

\* process_contig lines 151-167: parse and attach the records; the closure
\* returns and its guard is dropped.
AttachRecords ==
    /\ \E i \in DOMAIN task :
          /\ task[i].pc = "attach"
          /\ task' = [task EXCEPT ![i].pc = "done"]
          /\ reader_lock' = Release(reader_lock, i)
    /\ UNCHANGED <<find_vars, filter_vars, cluster_vars, extract_vars, start_vars, stream, batch_size, seq_vars, par_vars, run_vars, variant, cores>>

\* A `?` inside the closure: the call returns its error at once and its guard
\* is dropped.
TaskFails ==
    /\ \E i \in DOMAIN task :
          /\ task[i].pc \in {"fetch", "drain", "attach"}
          /\ task' = [task EXCEPT ![i].pc = "failed"]
          /\ reader_lock' = Release(reader_lock, i)
    /\ UNCHANGED <<find_vars, filter_vars, cluster_vars, extract_vars, start_vars, stream, batch_size, seq_vars, par_vars, run_vars, variant, cores>>

NextWorkers ==
    \/ StartTask
    \/ LockReader
    \/ BorrowReader
    \/ OpenReader
    \/ FetchContig
    \/ DrainRecords
    \/ AttachRecords
    \/ TaskFails

SpecWorkers == InitWorkers /\ [][NextWorkers]_vars

\* ----------------------------------------------------------- motif search
\* IupacBase::mask: one bit per nucleotide (A 1, C 2, G 4, T 8), an ambiguity
\* code carrying the bits of the nucleotides it stands for.
Mask(base) ==
    CASE base = "A" -> 1
      [] base = "C" -> 2
      [] base = "G" -> 4
      [] base = "T" -> 8
      [] base = "R" -> 5
      [] base = "Y" -> 10
      [] base = "S" -> 6
      [] base = "W" -> 9
      [] base = "K" -> 12
      [] base = "M" -> 3
      [] base = "B" -> 14
      [] base = "D" -> 13
      [] base = "H" -> 11
      [] base = "V" -> 7
      [] base = "N" -> 15

\* The & of two u8 values.
RECURSIVE BitAnd(_, _)
BitAnd(a, b) ==
    IF a = 0 \/ b = 0
    THEN 0
    ELSE (a % 2) * (b % 2) + 2 * BitAnd(a \div 2, b \div 2)

\* The bases the searched sequences and motifs are made of.
Bases == {"A", "C", "R", "Y", "N"}

BaseStrings(min_len, max_len) == UNION {[1..n -> Bases] : n \in min_len..max_len}

\* The sequences searched.
SequencesToSearch == BaseStrings(0, MaxSeqLen)

\* The motifs searched for: at least one base, mod_position within the
\* motif and on the nucleotide the modification type modifies.
MotifsToFind ==
    {m \in [sequence : BaseStrings(1, MaxMotifLen), mod_type : {"a", "m"},
            mod_position : 0..(MaxMotifLen - 1)] :
        /\ m.mod_position < Len(m.sequence)
        /\ m.sequence[m.mod_position + 1] = (IF m.mod_type = "a" THEN "A" ELSE "C")}

\* Lines 37-43: the inner loop from offset j on; the window starting at i
\* (zero-based) matches when no offset has disjoint masks.
RECURSIVE WindowMatches(_, _, _, _)
WindowMatches(sequence, motif_bases, i, j) ==
    IF j >= Len(motif_bases)
    THEN TRUE
    ELSE IF BitAnd(Mask(sequence[i + j + 1]), Mask(motif_bases[j + 1])) = 0
         THEN FALSE
         ELSE WindowMatches(sequence, motif_bases, i, j + 1)

\* Lines 34-48: the outer loop from window start i to the last one, pushing
\* i + mod_position for every window that matches.
RECURSIVE ScanWindows(_, _, _, _)
ScanWindows(sequence, motif, i, last) ==
    IF i > last
    THEN <<>>
    ELSE (IF WindowMatches(sequence, motif.sequence, i, 0)
          THEN <<i + motif.mod_position>>
          ELSE <<>>) \o ScanWindows(sequence, motif, i + 1, last)

\* The loop written with an exclusive upper bound: the last window is left out.
find_motif_indices_exclusive(sequence, motif) ==
    IF Len(sequence) < Len(motif.sequence)
    THEN <<>>
    ELSE ScanWindows(sequence, motif, 0, Len(sequence) - Len(motif.sequence) - 1)

\* Lines 17-51: find_motif_indices_in_sequence, with the early return of
\* lines 30-32.
find_motif_indices_in_sequence(sequence, motif) ==
    IF Len(sequence) < Len(motif.sequence)
    THEN <<>>
    ELSE ScanWindows(sequence, motif, 0, Len(sequence) - Len(motif.sequence))

\* A sequence and a motif are given; nothing else is going on.
InitMotif ==
    /\ find_sequence \in SequencesToSearch
    /\ find_motif \in MotifsToFind
    /\ indices = None
    /\ rc_motif_indices = None
    /\ rc_sequence_indices = None
    /\ stream = <<>>
    /\ batch_size = 0
    /\ loader = BatchLoaderNew(<<>>, 1, FALSE)
    /\ filtered = BatchLoaderNew(<<>>, 1, FALSE)
    /\ unit = BatchLoaderNew(<<>>, 1, FALSE)
    /\ results = <<>>
    /\ rejected = FALSE
    /\ filtered_results = <<>>
    /\ unit_results = <<>>
    /\ threads = 0
    /\ par = ParallelBatchLoaderNew(0, 0, FALSE)
    /\ par_unit = ParallelBatchLoaderNew(0, 0, FALSE)
    /\ par_results = <<>>
    /\ par_unit_results = <<>>
    /\ NoRun
    /\ NoWorkers
    /\ NoFilter
    /\ NoCluster
    /\ NoExtract
    /\ NoStart

\* The call of find_motif_indices_in_sequence.
FindMotifIndices ==
    /\ find_motif # None
    /\ indices = None
    /\ indices' = Some(find_motif_indices_in_sequence(find_sequence, find_motif))
    /\ UNCHANGED <<find_sequence, find_motif, rc_motif_indices, rc_sequence_indices,
                   filter_vars, cluster_vars, extract_vars, start_vars, stream, batch_size, seq_vars, par_vars, run_vars, work_vars>>

NextMotif == FindMotifIndices

SpecMotif == InitMotif /\ [][NextMotif]_vars

\* ------------------------------------------------- reverse complement search
\* The complement of an IUPAC base: the code of the complements of the
\* nucleotides it stands for.
Complement(base) ==
    CASE base = "A" -> "T"
      [] base = "T" -> "A"
      [] base = "C" -> "G"
      [] base = "G" -> "C"
      [] base = "R" -> "Y"
      [] base = "Y" -> "R"
      [] base = "S" -> "S"
      [] base = "W" -> "W"
      [] base = "K" -> "M"
      [] base = "M" -> "K"
      [] base = "B" -> "V"
      [] base = "V" -> "B"
      [] base = "D" -> "H"
      [] base = "H" -> "D"
      [] base = "N" -> "N"

\* The bases complemented, in reverse order.
reverse_complement_sequence(sequence) ==
    [k \in 1..Len(sequence) |-> Complement(sequence[Len(sequence) + 1 - k])]

\* Motif::reverse_complement: the sequence reverse-complemented and
\* mod_position counted from the other end.
reverse_complement(motif) ==
    Motif(reverse_complement_sequence(motif.sequence), motif.mod_type,
          Len(motif.sequence) - 1 - motif.mod_position)

\* Bases closed under complement.
RcBases == {"A", "C", "G", "T", "R", "Y", "N"}

RcStrings(min_len, max_len) == UNION {[1..n -> RcBases] : n \in min_len..max_len}

\* The motifs searched in both orientations: well formed as in MotifsToFind.
RcMotifs ==
    {m \in [sequence : RcStrings(1, MaxMotifLen), mod_type : {"a", "m"},
            mod_position : 0..(MaxMotifLen - 1)] :
        /\ m.mod_position < Len(m.sequence)
        /\ m.sequence[m.mod_position + 1] = (IF m.mod_type = "a" THEN "A" ELSE "C")}

\* A sequence and a motif are given for the two searches.
InitRevComp ==
    /\ find_sequence \in RcStrings(0, MaxRcLen)
    /\ find_motif \in RcMotifs
    /\ indices = None
    /\ rc_motif_indices = None
    /\ rc_sequence_indices = None
    /\ stream = <<>>
    /\ batch_size = 0
    /\ loader = BatchLoaderNew(<<>>, 1, FALSE)
    /\ filtered = BatchLoaderNew(<<>>, 1, FALSE)
    /\ unit = BatchLoaderNew(<<>>, 1, FALSE)
    /\ results = <<>>
    /\ rejected = FALSE
    /\ filtered_results = <<>>
    /\ unit_results = <<>>
    /\ threads = 0
    /\ par = ParallelBatchLoaderNew(0, 0, FALSE)
    /\ par_unit = ParallelBatchLoaderNew(0, 0, FALSE)
    /\ par_results = <<>>
    /\ par_unit_results = <<>>
    /\ NoRun
    /\ NoWorkers
    /\ NoFilter
    /\ NoCluster
    /\ NoExtract
    /\ NoStart

\* find_motif_indices_in_sequence(&sequence, &motif.reverse_complement()).
SearchReverseComplementMotif ==
    /\ find_motif # None
    /\ rc_motif_indices = None
    /\ rc_motif_indices' =
          Some(find_motif_indices_in_sequence(find_sequence, reverse_complement(find_motif)))
    /\ UNCHANGED <<find_sequence, find_motif, indices, rc_sequence_indices,
                   filter_vars, cluster_vars, extract_vars, start_vars, stream, batch_size, seq_vars, par_vars, run_vars, work_vars>>

\* find_motif_indices_in_sequence(&sequence.reverse_complement(), &motif).
SearchReverseComplementSequence ==
    /\ find_motif # None
    /\ rc_sequence_indices = None
    /\ rc_sequence_indices' =
          Some(find_motif_indices_in_sequence(reverse_complement_sequence(find_sequence),
                                              find_motif))
    /\ UNCHANGED <<find_sequence, find_motif, indices, rc_motif_indices,
                   filter_vars, cluster_vars, extract_vars, start_vars, stream, batch_size, seq_vars, par_vars, run_vars, work_vars>>

NextRevComp == SearchReverseComplementMotif \/ SearchReverseComplementSequence

SpecRevComp == InitRevComp /\ [][NextRevComp]_vars

\* ------------------------------------------------------------ record filter
\* Neither loader is at work.
NoLoaders ==
    /\ stream = <<>>
    /\ batch_size = 0
    /\ loader = BatchLoaderNew(<<>>, 1, FALSE)
    /\ filtered = BatchLoaderNew(<<>>, 1, FALSE)
    /\ unit = BatchLoaderNew(<<>>, 1, FALSE)
    /\ results = <<>>
    /\ rejected = FALSE
    /\ filtered_results = <<>>
    /\ unit_results = <<>>
    /\ threads = 0
    /\ par = ParallelBatchLoaderNew(0, 0, FALSE)
    /\ par_unit = ParallelBatchLoaderNew(0, 0, FALSE)
    /\ par_results = <<>>
    /\ par_unit_results = <<>>

\* The read counts of a pileup line: fields 12 (n_modified), 10 (n_valid_cov)
\* and 17 (n_diff).
PileupCounts ==
    [n_modified : 0..MaxCount, n_valid_cov : 0..MaxCount, n_diff : 0..MaxCount]

\* min_valid_cov_to_diff_fraction as numerator and denominator.
Fractions == {<<0, 1>>, <<1, 2>>, <<4, 5>>, <<1, 1>>}

Thresholds ==
    [min_valid_read_coverage : 0..MaxCount, min_valid_cov_to_diff_fraction : Fractions]

\* MethylationCoverage::new without its check.
MethylationCoverageNewUnchecked(n_modified, n_valid_cov) ==
    [ok |-> TRUE, cov |-> [n_modified |-> n_modified, n_valid_cov |-> n_valid_cov]]

\* MethylationCoverage::new, lines 16-29.
MethylationCoverageNew(n_modified, n_valid_cov) ==
    IF n_modified > n_valid_cov
    THEN [ok |-> FALSE, cov |-> [n_modified |-> 0, n_valid_cov |-> 0]]
    ELSE [ok |-> TRUE, cov |-> [n_modified |-> n_modified, n_valid_cov |-> n_valid_cov]]

\* The two filters of a record; a record without valid or differing reads
\* has the fraction 0/0 and is dropped.
PassesThresholds(record, limits) ==
    LET p == limits.min_valid_cov_to_diff_fraction[1]
        q == limits.min_valid_cov_to_diff_fraction[2]
        total == record.n_valid_cov + record.n_diff
    IN  /\ record.n_valid_cov >= limits.min_valid_read_coverage
        /\ total > 0
        /\ record.n_valid_cov * q >= p * total

\* parse_to_methylation_record on the counts of a line: Ok(None) for a
\* filtered-out record, else the coverage or the error of its construction.
parse_to_methylation_record(record, limits) ==
    IF ~PassesThresholds(record, limits)
    THEN [tag |-> "None", cov |-> [n_modified |-> 0, n_valid_cov |-> 0]]
    ELSE LET c == MethylationCoverageNew(record.n_modified, record.n_valid_cov)
         IN  IF c.ok
             THEN [tag |-> "Some", cov |-> c.cov]
             ELSE [tag |-> "Err", cov |-> c.cov]

\* A pileup record of a contig with nothing attached yet, and the thresholds.
InitFilter ==
    /\ pileup_record \in PileupCounts
    /\ thresholds \in Thresholds
    /\ attached = {}
    /\ filter_pc = [by |-> "none", outcome |-> "pending"]
    /\ NoLoaders
    /\ NoRun
    /\ NoWorkers
    /\ NoFind
    /\ NoCluster
    /\ NoExtract
    /\ NoStart

\* What a loader does with the outcome of parse_to_methylation_record:
\* attach the coverage, pass over the record, or return the error.
AttachOutcome(by) ==
    LET m == parse_to_methylation_record(pileup_record, thresholds)
    IN  /\ attached' = IF m.tag = "Some" THEN attached \cup {m.cov} ELSE attached
        /\ filter_pc' = [by |-> by,
                         outcome |-> CASE m.tag = "Some" -> "attached"
                                       [] m.tag = "None" -> "skipped"
                                       [] OTHER -> "error"]

\* BatchLoader::next, lines 130-144.
BatchLoaderAttach ==
    /\ filter_pc.outcome = "pending"
    /\ AttachOutcome("BatchLoader")
    /\ UNCHANGED <<pileup_record, thresholds, find_vars, cluster_vars, extract_vars, start_vars, stream, batch_size, seq_vars,
                   par_vars, run_vars, work_vars>>

\* process_contig of the indexed loader, lines 151-165.
ProcessContigAttach ==
    /\ filter_pc.outcome = "pending"
    /\ AttachOutcome("process_contig")
    /\ UNCHANGED <<pileup_record, thresholds, find_vars, cluster_vars, extract_vars, start_vars, stream, batch_size, seq_vars,
                   par_vars, run_vars, work_vars>>

NextFilter == BatchLoaderAttach \/ ProcessContigAttach

SpecFilter == InitFilter /\ [][NextFilter]_vars

\* --------------------------------------------------------- motif clustering
Nucleotides == {"A", "C", "G", "T"}

\* IupacBase::to_possible_nucleotides: the nucleotides a base stands for.
to_possible_nucleotides(base) == {n \in Nucleotides : BitAnd(Mask(base), Mask(n)) # 0}

IupacBases ==
    {"A", "C", "G", "T", "R", "Y", "S", "W", "K", "M", "B", "D", "H", "V", "N"}

\* IupacBase::from_nucleotides: the base that stands for exactly the set; an
\* empty set is an error.
from_nucleotides(nucs) ==
    IF nucs = {}
    THEN [ok |-> FALSE, base |-> "N"]
    ELSE [ok |-> TRUE,
          base |-> CHOOSE b \in IupacBases : to_possible_nucleotides(b) = nucs]

\* A sequence of n copies of a base.
Repeat(base, n) == [k \in 1..n |-> base]

\* `as i8` of an unsigned value: the low 8 bits read as two's complement.
AsI8(n) == LET low == n % 256 IN IF low >= 128 THEN low - 256 ELSE low

\* i8 subtraction: out of range it panics when the build checks overflow and
\* wraps when it does not.
SubI8(a, b, checks) ==
    IF a - b >= -128 /\ a - b <= 127
    THEN [ok |-> TRUE, value |-> a - b]
    ELSE IF checks
         THEN [ok |-> FALSE, value |-> 0]
         ELSE [ok |-> TRUE, value |-> AsI8((a - b) % 256)]

\* i8::abs: -128 has no absolute value in i8 (panic, or -128 again).
AbsI8(a, checks) ==
    IF a = -128
    THEN (IF checks THEN [ok |-> FALSE, value |-> 0] ELSE [ok |-> TRUE, value |-> -128])
    ELSE [ok |-> TRUE, value |-> IF a < 0 THEN 0 - a ELSE a]

\* Results of the functions that may panic or fail: a value, a panic!, an
\* arithmetic overflow caught by the build's checks, an Err.
OkValue(v) == [tag |-> "Ok", value |-> v]
PanicResult == [tag |-> "Panic", value |-> 0]
OverflowResult == [tag |-> "Overflow", value |-> 0]
ErrResult == [tag |-> "Err", value |-> 0]

\* Lines 100-127: hamming_distance; the number of columns whose bases share
\* no nucleotide.
hamming_distance(s1, s2) ==
    IF Len(s1.sequence) # Len(s2.sequence)
    THEN PanicResult
    ELSE IF s1.mod_position # s2.mod_position
    THEN PanicResult
    ELSE IF s1.mod_type # s2.mod_type
    THEN PanicResult
    ELSE OkValue(Cardinality({k \in 1..Len(s1.sequence) :
                  to_possible_nucleotides(s1.sequence[k])
                      \cap to_possible_nucleotides(s2.sequence[k]) = {}}))

\* Lines 54-65: edit_distance.  The positions and the lengths are compared
\* as i8 values; only motifs that agree in both get a Hamming distance, every
\* other pair the distance 100.
edit_distance(m1, m2, checks) ==
    LET mod_position_offset == SubI8(AsI8(m1.mod_position), AsI8(m2.mod_position), checks)
        length_diff == SubI8(AsI8(Len(m1.sequence)), AsI8(Len(m2.sequence)), checks)
    IN  IF ~mod_position_offset.ok \/ ~AbsI8(mod_position_offset.value, checks).ok
        THEN OverflowResult
        ELSE IF ~length_diff.ok \/ ~AbsI8(length_diff.value, checks).ok
        THEN OverflowResult
        ELSE IF mod_position_offset.value = 0 /\ length_diff.value = 0
        THEN hamming_distance(m1, m2)
        ELSE OkValue(100)

\* Lines 22-27: UnionFind::new.  Elements are numbered from 1 here, from 0 in
\* the source.
UnionFindNew(n) == [parent |-> [i \in 1..n |-> i], rank |-> [i \in 1..n |-> 0]]

\* Lines 29-35: UnionFind::find, with its path compression.
RECURSIVE Find(_, _)
Find(uf, i) ==
    IF uf.parent[i] # i
    THEN LET up == Find(uf, uf.parent[i])
         IN  [uf |-> [up.uf EXCEPT !.parent[i] = up.root], root |-> up.root]
    ELSE [uf |-> uf, root |-> i]

\* Lines 37-51: UnionFind::union.
Union(uf, x, y) ==
    LET fx == Find(uf, x)
        fy == Find(fx.uf, y)
        rx == fx.root
        ry == fy.root
        u == fy.uf
    IN  IF rx = ry
        THEN u
        ELSE IF u.rank[rx] < u.rank[ry]
        THEN [u EXCEPT !.parent[rx] = ry]
        ELSE IF u.rank[rx] > u.rank[ry]
        THEN [u EXCEPT !.parent[ry] = rx]
        ELSE [u EXCEPT !.parent[ry] = rx, !.rank[rx] = @ + 1]

\* Lines 133-148: the two loops of cluster_motifs from the pair (i, j) on.
RECURSIVE ClusterPairs(_, _, _, _, _, _)
ClusterPairs(uf, motif_list, with_edit, checks, i, j) ==
    IF i > Len(motif_list)
    THEN OkValue(uf)
    ELSE IF j > Len(motif_list)
    THEN ClusterPairs(uf, motif_list, with_edit, checks, i + 1, i + 2)
    ELSE IF motif_list[i].mod_type # motif_list[j].mod_type
    THEN ClusterPairs(uf, motif_list, with_edit, checks, i, j + 1)
    ELSE IF ~with_edit
    THEN ClusterPairs(uf, motif_list, with_edit, checks, i, j + 1)
    ELSE LET d == edit_distance(motif_list[i], motif_list[j], checks)
         IN  IF d.tag # "Ok"
             THEN d
             ELSE IF d.value <= 1
             THEN ClusterPairs(Union(uf, i, j), motif_list, with_edit, checks, i, j + 1)
             ELSE ClusterPairs(uf, motif_list, with_edit, checks, i, j + 1)

\* Lines 129-151: cluster_motifs.
cluster_motifs(motif_list, with_edit, checks) ==
    ClusterPairs(UnionFindNew(Len(motif_list)), motif_list, with_edit, checks, 1, 2)

\* The motifs at the given indices, in the order of the list.
RECURSIVE Pick(_, _, _)
Pick(motif_list, wanted, i) ==
    IF i > Len(motif_list)
    THEN <<>>
    ELSE (IF i \in wanted THEN <<motif_list[i]>> ELSE <<>>) \o Pick(motif_list, wanted, i + 1)

\* Lines 153-162: group_motifs_by_set; the map from a root to the motifs of
\* its set, in the order of the list.
group_motifs_by_set(uf, motif_list) ==
    LET root(i) == Find(uf, i).root
        roots == {root(i) : i \in 1..Len(motif_list)}
    IN  [r \in roots |-> Pick(motif_list, {i \in 1..Len(motif_list) : root(i) = r}, 1)]

\* Motif::new: mod_position lies within the sequence and on the nucleotide
\* the modification type modifies.
MotifNew(sequence, mod_type, mod_position) ==
    IF /\ Len(sequence) >= 1
       /\ mod_position < Len(sequence)
       /\ sequence[mod_position + 1] = (IF mod_type = "a" THEN "A" ELSE "C")
    THEN [tag |-> "Ok", value |-> Motif(sequence, mod_type, mod_position)]
    ELSE [tag |-> "Err", value |-> Motif(sequence, mod_type, mod_position)]

\* Lines 181-191: column i of the collapsed motif, the base of the union of
\* the nucleotides of the motifs in that column.
UnifiedBase(motif_list, i) ==
    from_nucleotides(UNION {to_possible_nucleotides(motif_list[k].sequence[i]) :
                               k \in 1..Len(motif_list)})

\* collapse_motifs taking every column from its first motif instead of
\* widening it over all motifs.
collapse_motifs_first(motif_list) ==
    LET first_motif == motif_list[1]
        n_bases == Len(first_motif.sequence)
    IN  IF \E k \in 1..Len(motif_list) :
              \/ Len(motif_list[k].sequence) # n_bases
              \/ motif_list[k].mod_type # first_motif.mod_type
              \/ motif_list[k].mod_position # first_motif.mod_position
        THEN [tag |-> "Err", value |-> first_motif]
        ELSE MotifNew(first_motif.sequence, first_motif.mod_type, first_motif.mod_position)

\* Lines 164-206: collapse_motifs.
collapse_motifs(motif_list) ==
    LET first_motif == motif_list[1]
        n_bases == Len(first_motif.sequence)
    IN  IF \E k \in 1..Len(motif_list) :
              \/ Len(motif_list[k].sequence) # n_bases
              \/ motif_list[k].mod_type # first_motif.mod_type
              \/ motif_list[k].mod_position # first_motif.mod_position
        THEN [tag |-> "Err", value |-> first_motif]
        ELSE IF \E i \in 1..n_bases : ~UnifiedBase(motif_list, i).ok
        THEN [tag |-> "Err", value |-> first_motif]
        ELSE MotifNew([i \in 1..n_bases |-> UnifiedBase(motif_list, i).base],
                      first_motif.mod_type, first_motif.mod_position)

\* The elements of a vector.
Elements(vector) == {vector[k] : k \in 1..Len(vector)}

\* Lines 233-242: the motifs of minimum length of a cluster.
SmallestMotifs(motifs_in_cluster) ==
    LET lengths == {Len(m.sequence) : m \in Elements(motifs_in_cluster)}
        min_motif == CHOOSE n \in lengths : \A other \in lengths : n <= other
        keep == {k \in 1..Len(motifs_in_cluster) :
                    Len(motifs_in_cluster[k].sequence) = min_motif}
    IN  Pick(motifs_in_cluster, keep, 1)

\* Lines 232-256: what one cluster inserts into motif_cluster_representatives:
\* a panic, an error, or its entries (the representative, the motifs of the
\* cluster and the sub-cluster the representative was made of).
ClusterEntries(motifs_in_cluster, checks) ==
    LET smallest_motifs == SmallestMotifs(motifs_in_cluster)
    IN  IF Len(smallest_motifs) > 1
        THEN LET rep_cluster == cluster_motifs(smallest_motifs, TRUE, checks)
             IN  IF rep_cluster.tag # "Ok"
                 THEN [tag |-> rep_cluster.tag, entries |-> {}]
                 ELSE LET rep_motif_clusters ==
                              group_motifs_by_set(rep_cluster.value, smallest_motifs)
                          subs == {rep_motif_clusters[r] : r \in DOMAIN rep_motif_clusters}
                      IN  IF \E sub \in subs : collapse_motifs(sub).tag = "Err"
                          THEN [tag |-> "Err", entries |-> {}]
                          ELSE [tag |-> "Ok",
                                entries |-> {[rep |-> collapse_motifs(sub).value,
                                              members |-> motifs_in_cluster,
                                              sub |-> sub] : sub \in subs}]
        ELSE [tag |-> "Ok",
              entries |-> {[rep |-> smallest_motifs[1], members |-> motifs_in_cluster,
                            sub |-> smallest_motifs]}]

\* Lines 223-256 of motif_clustering: the outcomes it can have.  The clusters
\* are visited in the order of a HashMap, so with a panic in one cluster and
\* an error in another either may come first.
motif_clustering(motif_list, checks) ==
    LET uf == cluster_motifs(motif_list, TRUE, checks)
    IN  IF uf.tag # "Ok"
        THEN {[tag |-> uf.tag, entries |-> {}]}
        ELSE LET motif_clusters == group_motifs_by_set(uf.value, motif_list)
                 made == {ClusterEntries(motif_clusters[r], checks) : r \in DOMAIN motif_clusters}
                 broken == {e \in made : e.tag # "Ok"}
             IN  IF broken # {}
                 THEN {[tag |-> e.tag, entries |-> {}] : e \in broken}
                 ELSE {[tag |-> "Ok", entries |-> UNION {e.entries : e \in made}]}

\* motif_cluster_representatives after all inserts: one entry per
\* representative; of two entries with the same representative the one
\* inserted last stays.
AsMap(entries) ==
    {kept \in SUBSET entries :
        /\ \A e \in entries : \E k \in kept : k.rep = e.rep
        /\ \A k1, k2 \in kept : k1.rep = k2.rep => k1 = k2}

\* Motif::is_child_motif: the sequence of the child matches a contiguous
\* window of the parent, base by base, with the modified base of the child
\* on the modified base of the parent.
is_child_motif(child, parent) ==
    LET offset == parent.mod_position - child.mod_position
    IN  /\ offset >= 0
        /\ offset + Len(child.sequence) <= Len(parent.sequence)
        /\ \A k \in 1..Len(child.sequence) :
               to_possible_nucleotides(child.sequence[k])
                   \cap to_possible_nucleotides(parent.sequence[offset + k]) # {}

\* The motifs the lists are made of: those of the tests of the module
\* (lines 299-337), GATCR_m_3 and GATC_a_1, three motifs of four bases that
\* differ in their ambiguous columns, and a motif of one base.
ClusterMotifs ==
    {Motif(<<"G", "A", "T", "C", "C">>, "m", 3),
     Motif(<<"G", "A", "T", "C", "G">>, "m", 3),
     Motif(<<"G", "A", "T", "C", "R">>, "m", 3),
     Motif(<<"G", "T", "T", "C", "T">>, "m", 3),
     Motif(<<"G", "A", "T", "C">>, "m", 3),
     Motif(<<"C", "C", "W", "G">>, "m", 1),
     Motif(<<"C", "W", "G", "G">>, "m", 0),
     Motif(<<"G", "A", "T", "C">>, "a", 1),
     Motif(<<"A", "A", "A", "C">>, "a", 0),
     Motif(<<"A", "M", "A", "A">>, "a", 0),
     Motif(<<"A", "C", "C", "C">>, "a", 0),
     Motif(<<"A">>, "a", 0)}

\* Motifs whose lengths differ by more than an i8 holds: 1, 129 and 257 bases.
LongMotifs ==
    {Motif(<<"A">>, "a", 0),
     Motif(<<"A">> \o Repeat("N", 128), "a", 0),
     Motif(<<"A">> \o Repeat("N", 256), "a", 0)}

\* The motif lists given to the clustering: every list of up to MaxMotifs of
\* the short motifs, and the pairs of the long ones.
ClusterInputs ==
    UNION {[1..n -> ClusterMotifs] : n \in 0..MaxMotifs}
        \cup [1..2 -> LongMotifs]

\* The vectors that list every element of a set once.
VectorsOf(set) ==
    {v \in [1..Cardinality(set) -> set] : \A a, b \in DOMAIN v : v[a] = v[b] => a = b}

\* A motif list is given, and the build profile is chosen.
InitCluster ==
    /\ cluster_input \in ClusterInputs
    /\ overflow_checks \in BOOLEAN
    /\ edit = None
    /\ first_run = None
    /\ second_run = None
    /\ NoLoaders
    /\ NoRun
    /\ NoWorkers
    /\ NoFind
    /\ NoFilter
    /\ NoExtract
    /\ NoStart

\* edit_distance on the first two motifs of the list, as cluster_motifs calls
\* it for motifs of one mod_type.
EditDistance ==
    /\ Len(cluster_input) >= 2
    /\ cluster_input[1].mod_type = cluster_input[2].mod_type
    /\ edit = None
    /\ edit' = Some(edit_distance(cluster_input[1], cluster_input[2], overflow_checks))
    /\ UNCHANGED <<cluster_input, overflow_checks, first_run, second_run, find_vars,
                   filter_vars, extract_vars, start_vars, stream, batch_size, seq_vars, par_vars, run_vars, work_vars>>

\* motif_clustering on the motif list.
MotifClustering ==
    /\ first_run = None
    /\ \E outcome \in motif_clustering(cluster_input, overflow_checks) :
       \E kept \in AsMap(outcome.entries) :
          first_run' = Some([tag |-> outcome.tag, entries |-> kept])
    /\ UNCHANGED <<cluster_input, overflow_checks, edit, second_run, find_vars,
                   filter_vars, extract_vars, start_vars, stream, batch_size, seq_vars, par_vars, run_vars, work_vars>>

\* motif_clustering on the representatives of the first run, in any order.
ClusterRepresentatives ==
    /\ first_run # None
    /\ first_run[1].tag = "Ok"
    /\ second_run = None
    /\ \E motif_list \in VectorsOf({e.rep : e \in first_run[1].entries}) :
       \E outcome \in motif_clustering(motif_list, overflow_checks) :
       \E kept \in AsMap(outcome.entries) :
          second_run' = Some([tag |-> outcome.tag, entries |-> kept])
    /\ UNCHANGED <<cluster_input, overflow_checks, edit, first_run, find_vars,
                   filter_vars, extract_vars, start_vars, stream, batch_size, seq_vars, par_vars, run_vars, work_vars>>

NextCluster == EditDistance \/ MotifClustering \/ ClusterRepresentatives

SpecCluster == InitCluster /\ [][NextCluster]_vars

\* -------------------------------------------------- read-level extraction
\* extract_read_methylation_service.rs, extract_read_methylation_pattern:
\* the closure calls of the contigs send their lines over a channel to a
\* writer thread.  What is modelled is the function from the creation of the
\* channel (line 64) to its return.

\* A line of the output: the hit-th line of a contig.
Line(contig, hit) == [contig |-> contig, hit |-> hit]

\* Lines 69-72: the header line.
HeaderLine == Line(0, 0)

\* The closure calls still sending, failed, and panicked.
Sending == {c \in DOMAIN contig_workers : contig_workers[c].pc = "sending"}
FailedContigs == {c \in DOMAIN contig_workers : contig_workers[c].pc = "failed"}
PanickedContigs == {c \in DOMAIN contig_workers : contig_workers[c].pc = "panicked"}

\* Lines 64-86 have run: the channel exists and the writer thread is spawned
\* and has not run yet.  The contigs of the BAM file are 1..n.
InitExtract ==
    /\ \E n \in 0..MaxContigs : hits_per_contig \in [1..n -> 0..MaxHits]
    /\ contig_workers = [c \in DOMAIN hits_per_contig |-> [pc |-> "queued", sent |-> 0]]
    /\ line_channel = <<>>
    /\ sender_dropped = FALSE
    /\ receiver_dropped = FALSE
    /\ writer_thread = [pc |-> "create", result |-> "none", buffer |-> <<>>]
    /\ output_file = [exists |-> FALSE, lines |-> <<>>]
    /\ extract_pc = "par_iter"
    /\ NoLoaders
    /\ NoRun
    /\ NoWorkers
    /\ NoFind
    /\ NoFilter
    /\ NoCluster
    /\ NoStart

\* A `?` of the writer thread (lines 68, 72, 76, 84): the closure returns the
\* error, the receiver is dropped with it, and the BufWriter, if there is
\* one, writes what it can of its buffer when it is dropped.
WriterFails ==
    /\ writer_thread' = [pc |-> "finished", result |-> "Err", buffer |-> <<>>]
    /\ receiver_dropped' = TRUE
    /\ \E k \in 0..Len(writer_thread.buffer) :
          output_file' = IF output_file.exists
                         THEN [output_file EXCEPT !.lines = SubSeq(writer_thread.buffer, 1, k)]
                         ELSE output_file

\* Line 68: File::create.
WriterCreate ==
    /\ writer_thread.pc = "create"
    /\ \/ /\ writer_thread' = [writer_thread EXCEPT !.pc = "header"]
          /\ output_file' = [exists |-> TRUE, lines |-> <<>>]
          /\ UNCHANGED receiver_dropped
       \/ WriterFails
    /\ UNCHANGED <<hits_per_contig, contig_workers, line_channel, sender_dropped, extract_pc,
                   start_vars, cluster_vars, find_vars, filter_vars, stream, batch_size,
                   seq_vars, par_vars, run_vars, work_vars>>

\* Lines 69-72: the header is written.
WriterHeader ==
    /\ writer_thread.pc = "header"
    /\ \/ /\ writer_thread' = [writer_thread EXCEPT !.pc = "recv", !.buffer = <<HeaderLine>>]
          /\ UNCHANGED <<receiver_dropped, output_file>>
       \/ WriterFails
    /\ UNCHANGED <<hits_per_contig, contig_workers, line_channel, sender_dropped, extract_pc,
                   start_vars, cluster_vars, find_vars, filter_vars, stream, batch_size,
                   seq_vars, par_vars, run_vars, work_vars>>

\* Lines 75-83: recv gives the oldest line, which is written; with no line
\* in the channel it blocks while the sender lives and ends the loop once the
\* sender is dropped.
WriterRecv ==
    /\ writer_thread.pc = "recv"
    /\ \/ /\ line_channel # <<>>
          /\ line_channel' = Tail(line_channel)
          /\ \/ /\ writer_thread' = [writer_thread EXCEPT
                                         !.buffer = Append(@, Head(line_channel))]
                /\ UNCHANGED <<receiver_dropped, output_file>>
             \/ WriterFails
       \/ /\ line_channel = <<>>
          /\ sender_dropped
          /\ writer_thread' = [writer_thread EXCEPT !.pc = "flush"]
          /\ UNCHANGED <<line_channel, receiver_dropped, output_file>>
    /\ UNCHANGED <<hits_per_contig, contig_workers, sender_dropped, extract_pc,
                   start_vars, cluster_vars, find_vars, filter_vars, stream, batch_size,
                   seq_vars, par_vars, run_vars, work_vars>>

\* Lines 84-85: the final flush, and the closure returns.
WriterFlush ==
    /\ writer_thread.pc = "flush"
    /\ \/ /\ writer_thread' = [pc |-> "finished", result |-> "Ok", buffer |-> <<>>]
          /\ output_file' = [output_file EXCEPT !.lines = writer_thread.buffer]
          /\ receiver_dropped' = TRUE
       \/ WriterFails
    /\ UNCHANGED <<hits_per_contig, contig_workers, line_channel, sender_dropped, extract_pc,
                   start_vars, cluster_vars, find_vars, filter_vars, stream, batch_size,
                   seq_vars, par_vars, run_vars, work_vars>>

\* Lines 88-97: the closure call of a contig starts.  Opening the reader or
\* reading the contig may fail; a contig without reads is done at once.
ContigStart(c) ==
    /\ extract_pc = "par_iter"
    /\ contig_workers[c].pc = "queued"
    /\ \E ok \in BOOLEAN :
          contig_workers' = [contig_workers EXCEPT ![c].pc =
                                IF ~ok THEN "failed"
                                ELSE IF hits_per_contig[c] = 0 THEN "done"
                                ELSE "sending"]
    /\ UNCHANGED <<hits_per_contig, line_channel, sender_dropped, receiver_dropped,
                   writer_thread, output_file, extract_pc,
                   start_vars, cluster_vars, find_vars, filter_vars, stream, batch_size,
                   seq_vars, par_vars, run_vars, work_vars>>

\* Lines 173-191: a line is sent; send fails once the receiver is dropped,
\* and the expect panics.
ContigSend(c) ==
    /\ contig_workers[c].pc = "sending"
    /\ IF receiver_dropped
       THEN /\ contig_workers' = [contig_workers EXCEPT ![c].pc = "panicked"]
            /\ UNCHANGED line_channel
       ELSE LET sent == contig_workers[c].sent + 1
            IN  /\ line_channel' = Append(line_channel, Line(c, sent))
                /\ contig_workers' = [contig_workers EXCEPT ![c] =
                       [pc |-> IF sent = hits_per_contig[c] THEN "done" ELSE "sending",
                        sent |-> sent]]
    /\ UNCHANGED <<hits_per_contig, sender_dropped, receiver_dropped,
                   writer_thread, output_file, extract_pc,
                   start_vars, cluster_vars, find_vars, filter_vars, stream, batch_size,
                   seq_vars, par_vars, run_vars, work_vars>>

\* Lines 196-197: every closure call returned Ok; the sender is dropped.
ParIterOk ==
    /\ extract_pc = "par_iter"
    /\ \A c \in DOMAIN contig_workers : contig_workers[c].pc = "done"
    /\ sender_dropped' = TRUE
    /\ extract_pc' = "join"
    /\ UNCHANGED <<hits_per_contig, contig_workers, line_channel, receiver_dropped,
                   writer_thread, output_file,
                   start_vars, cluster_vars, find_vars, filter_vars, stream, batch_size,
                   seq_vars, par_vars, run_vars, work_vars>>

\* Line 196: a closure call returned an error; try_for_each starts no further
\* call, the `?` returns the error once the running calls have ended, and
\* the sender is dropped with the function's locals.
ParIterErr ==
    /\ extract_pc = "par_iter"
    /\ FailedContigs # {}
    /\ Sending = {}
    /\ PanickedContigs = {}
    /\ sender_dropped' = TRUE
    /\ extract_pc' = "Err"
    /\ UNCHANGED <<hits_per_contig, contig_workers, line_channel, receiver_dropped,
                   writer_thread, output_file,
                   start_vars, cluster_vars, find_vars, filter_vars, stream, batch_size,
                   seq_vars, par_vars, run_vars, work_vars>>

\* Line 196: the panic of a closure call is resumed in the caller once the
\* running calls have ended.
ParIterPanic ==
    /\ extract_pc = "par_iter"
    /\ PanickedContigs # {}
    /\ Sending = {}
    /\ sender_dropped' = TRUE
    /\ extract_pc' = "Panic"
    /\ UNCHANGED <<hits_per_contig, contig_workers, line_channel, receiver_dropped,
                   writer_thread, output_file,
                   start_vars, cluster_vars, find_vars, filter_vars, stream, batch_size,
                   seq_vars, par_vars, run_vars, work_vars>>

\* Lines 198-199: join waits for the writer thread; `let _ =` drops the
\* Result it returned, and the function returns Ok(()).
JoinWriter ==
    /\ extract_pc = "join"
    /\ writer_thread.pc = "finished"
    /\ extract_pc' = "Ok"
    /\ UNCHANGED <<hits_per_contig, contig_workers, line_channel, sender_dropped,
                   receiver_dropped, writer_thread, output_file,
                   start_vars, cluster_vars, find_vars, filter_vars, stream, batch_size,
                   seq_vars, par_vars, run_vars, work_vars>>

NextExtract ==
    \/ WriterCreate
    \/ WriterHeader
    \/ WriterRecv
    \/ WriterFlush
    \/ \E c \in DOMAIN contig_workers : ContigStart(c)
    \/ \E c \in DOMAIN contig_workers : ContigSend(c)
    \/ ParIterOk
    \/ ParIterErr
    \/ ParIterPanic
    \/ JoinWriter

SpecExtract == InitExtract /\ [][NextExtract]_vars

\* ------------------------------------------------------------ motif start
\* extract_read_methylation_service.rs lines 111-144: for a read and a motif,
\* the start of the motif in the coordinates of the read mapping.

\* usize subtraction: below zero it panics when the build checks overflow and
\* wraps when it does not; a wrapped result of value v stands for 2^64 - v.
SubUsize(a, b, checks) ==
    IF a >= b
    THEN [tag |-> "Ok", value |-> a - b]
    ELSE IF checks
         THEN [tag |-> "Overflow", value |-> 0]
         ELSE [tag |-> "Wrapped", value |-> b - a]

\* Lines 121-124: original_pos.
OriginalPos(strand, sequence_length, pos, checks) ==
    IF strand = "+"
    THEN [tag |-> "Ok", value |-> pos]
    ELSE LET rest == SubUsize(sequence_length, pos, checks)
         IN  IF rest.tag # "Ok" THEN rest ELSE SubUsize(rest.value, 1, checks)

\* Lines 133-136: motif_start_in_bam_coords.
MotifStartInBamCoords(strand, sequence_length, pos, mod_position, checks) ==
    IF strand = "+"
    THEN SubUsize(pos, mod_position, checks)
    ELSE LET original_pos == OriginalPos(strand, sequence_length, pos, checks)
         IN  IF original_pos.tag # "Ok"
             THEN original_pos
             ELSE SubUsize(original_pos.value, mod_position, checks)

\* The reads: their sequences and the strand of their mapping.
ReadSequences == BaseStrings(0, MaxReadLen)

\* A read, a motif and the build profile are given.
InitStart ==
    /\ find_sequence \in ReadSequences
    /\ find_motif \in MotifsToFind
    /\ indices = None
    /\ rc_motif_indices = None
    /\ rc_sequence_indices = None
    /\ read_strand \in {"+", "-"}
    /\ usize_checks \in BOOLEAN
    /\ motif_hits = None
    /\ NoLoaders
    /\ NoRun
    /\ NoWorkers
    /\ NoFilter
    /\ NoCluster
    /\ NoExtract

\* Lines 112-136 for one read and one motif: the hits of the motif and, for
\* each, original_pos and the start of the motif.
MotifHits ==
    /\ read_strand # "none"
    /\ motif_hits = None
    /\ LET found == find_motif_indices_in_sequence(find_sequence, find_motif)
           sequence_length == Len(find_sequence)
       IN  /\ indices' = Some(found)
           /\ motif_hits' = Some([k \in 1..Len(found) |->
                  [pos |-> found[k],
                   original_pos |-> OriginalPos(read_strand, sequence_length,
                                                found[k], usize_checks),
                   motif_start |-> MotifStartInBamCoords(read_strand, sequence_length,
                                       found[k], find_motif.mod_position, usize_checks)]])
    /\ UNCHANGED <<find_sequence, find_motif, rc_motif_indices, rc_sequence_indices,
                   read_strand, usize_checks, filter_vars, cluster_vars, extract_vars,
                   stream, batch_size, seq_vars, par_vars, run_vars, work_vars>>

NextStart == MotifHits

SpecStart == InitStart /\ [][NextStart]_vars

\* ------------------------------------------------- sequential loader claims
OkCalls(rs) == {i \in 1..Len(rs) : rs[i].tag = "Ok"}

\* Number of lines the reader has handed out and that are not pending.
Consumed == Len(stream) - Len(loader.reader) - Len(loader.pending_record)

PassesFilters(r) == r.kind = "keep" /\ r.contig \in Assembly

\* The yielded contigs (call, contig) that line i of the stream is attached to.
AttachedTo(i) ==
    {jc \in OkCalls(results) \X Assembly :
        \E c \in results[jc[1]].ws :
            c.id = jc[2] /\ [pos |-> stream[i].pos, cov |-> i] \in c.meth}

\* C1: every workspace returned as Ok except the last one holds exactly
\* batch_size contigs (the effective, coerced size), and the last one holds
\* between 1 and batch_size contigs.
C1_BatchSizes ==
    \A i \in OkCalls(results) :
        LET n == Cardinality(results[i].ws)
        IN  /\ n >= 1
            /\ n <= loader.batch_size
            /\ (\E j \in OkCalls(results) : j > i) => n = loader.batch_size

C1_Witness ==
    /\ loader.batch_size = 2
    /\ \E i, j \in OkCalls(results) :
          /\ i < j
          /\ Cardinality(results[i].ws) = 2
          /\ Cardinality(results[j].ws) = 1

\* C2: the record whose contig change triggers the yield of a full workspace
\* is kept in pending_record, in front of what the reader still holds, and once
\* the iteration has ended without an error every record of an assembly contig
\* that passes the filters is attached to exactly one yielded contig.
C2_NoRecordLost ==
    /\ loader.pending_record # None =>
          /\ Last(results).tag = "Ok"
          /\ loader.pending_record[1] = stream[Len(stream) - Len(loader.reader)]
    /\ Finished(results) =>
          \A i \in 1..Len(stream) :
              PassesFilters(stream[i]) => Cardinality(AttachedTo(i)) = 1

\* C3: with allow_mismatch = false, once a record of a contig absent from the
\* assembly has been read, next() has returned the error "Contig '<id>' not
\* found in assembly" instead of the workspace under construction.
C3_MissingContigIsFatal ==
    (~loader.allow_mismatch /\ \E i \in 1..Consumed : stream[i].contig \notin Assembly)
        => /\ Failed(results)
           /\ \E i \in 1..Consumed :
                Last(results) = Err(<<"Contig not found in assembly", stream[i].contig>>)

C3_Witness ==
    /\ ~loader.allow_mismatch
    /\ Len(results) >= 2
    /\ results[1].tag = "Ok"
    /\ Last(results) = Err(<<"Contig not found in assembly", Missing>>)
    /\ loader.current_contig # None

\* C4: with allow_mismatch = true the results of the successive next() calls
\* equal those for the stream with the records of contigs absent from the
\* assembly removed.
C4_SkipEqualsRemoval ==
    loader.allow_mismatch => results = filtered_results

C4_Witness ==
    /\ loader.allow_mismatch
    /\ Finished(results)
    /\ \E i, j, k \in 1..Len(stream) :
          /\ i < j /\ j < k
          /\ stream[j].contig = Missing
          /\ PassesFilters(stream[i]) /\ PassesFilters(stream[k])
          /\ stream[i].contig = stream[k].contig
    /\ \E n \in OkCalls(results) : \E c \in results[n].ws : Cardinality(c.meth) = 2

\* C5: for a stream whose contigs are contiguous, when the iteration has ended
\* every assembly contig with at least one record in the stream is in exactly
\* one yielded workspace.
C5_EveryContigOnce ==
    (Contiguous(stream) /\ Finished(results)) =>
        \A c \in Assembly :
            (\E i \in 1..Len(stream) : stream[i].contig = c)
                => Cardinality({j \in OkCalls(results) : c \in BuilderIds(results[j].ws)}) = 1

C5_Witness ==
    /\ Contiguous(stream)
    /\ Finished(results)
    /\ Cardinality(OkCalls(results)) >= 2
    /\ stream # <<>>
    /\ \E j \in OkCalls(results) :
          /\ \A k \in OkCalls(results) : k <= j
          /\ stream[Len(stream)].contig \in BuilderIds(results[j].ws)
    /\ \E c \in Assembly :
          /\ \E i \in 1..Len(stream) : stream[i].contig = c
          /\ \A i \in 1..Len(stream) : stream[i].contig = c => stream[i].kind = "drop"
          /\ \E j \in OkCalls(results) : [id |-> c, meth |-> {}] \in results[j].ws

\* C6: whenever add_contig is rejected inside next(), next() returns
\* Some(Err), at a contig change as well as on the end-of-stream flush.
C6_RejectionIsErr ==
    rejected => Last(results).tag = "Err"

\* C7: no yielded workspace is empty; an empty stream and a stream whose
\* contigs are all skipped give None at the first call; after a None every
\* later call gives None.
C7_NeverEmpty ==
    /\ \A i \in OkCalls(results) : results[i].ws # {}
    /\ (results # <<>> /\ stream = <<>>) => results[1].tag = "None"
    /\ (results # <<>> /\ loader.allow_mismatch
          /\ \A i \in 1..Len(stream) : stream[i].contig = Missing)
           => results[1].tag = "None"
    /\ \A i, j \in 1..Len(results) :
          (i < j /\ results[i].tag = "None") => results[j].tag = "None"

C7_Witness ==
    /\ Len(results) >= 3
    /\ results[Len(results) - 2].tag = "Ok"
    /\ results[Len(results) - 1].tag = "None"
    /\ results[Len(results)].tag = "None"

C7_WitnessSkipped ==
    /\ stream # <<>>
    /\ \A i \in 1..Len(stream) : stream[i].contig = Missing
    /\ loader.allow_mismatch
    /\ Len(results) >= 2

\* C8: a loader constructed with batch_size = 0 returns the same results as
\* one constructed with batch_size = 1.
C8_ZeroIsOne ==
    batch_size = 0 => results = unit_results

C8_Witness ==
    /\ batch_size = 0
    /\ Cardinality(OkCalls(results)) >= 2
    /\ Finished(results)

\* ---------------------------------------------------- indexed loader claims
\* C9: an indexed loader constructed with batch_size = 0 returns the same
\* results as one constructed with batch_size = 1.
C9_IndexedZeroIsOne ==
    batch_size = 0 => par_results = par_unit_results

\* C10: an indexed loader constructed with threads = 0 holds at least one
\* reader and each of its next() calls ends in a workspace, an Err or None.
C10_ZeroThreadsIsOne ==
    (threads = 0 /\ par_results # <<>>) =>
        /\ Len(par.readers) >= 1
        /\ \A i \in 1..Len(par_results) : par_results[i].tag \in {"Ok", "Err", "None"}

\* The contigs the indexed loader is to process: those of the index, cut down
\* to the assembly when mismatches are allowed.
EligibleContigs ==
    {c \in {stream[i].contig : i \in 1..Len(stream)} : par.allow_mismatch => c \in Assembly}

\* C11: with batch_size b >= 1 the batches returned are
\* pairwise disjoint, each one followed by another holds exactly b contigs,
\* no batch starts once the eligible contigs are used up (call i is a batch
\* only if (i - 1) * b eligible contigs were not enough), and when None has
\* been returned the union of the batches is the set of eligible contigs.
C11_BatchesPartitionEligible ==
    par.batch_size >= 1
    => /\ \A i, j \in OkCalls(par_results) :
            i # j => BuilderIds(par_results[i].ws) \cap BuilderIds(par_results[j].ws) = {}
       /\ \A i \in OkCalls(par_results) :
            LET n == Cardinality(par_results[i].ws)
            IN  /\ n >= 1 /\ n <= par.batch_size
                /\ (\E j \in OkCalls(par_results) : j > i) => n = par.batch_size
                /\ (i - 1) * par.batch_size < Cardinality(EligibleContigs)
       /\ Finished(par_results) =>
            UNION {BuilderIds(par_results[i].ws) : i \in OkCalls(par_results)} = EligibleContigs

C11_Witness ==
    /\ par.batch_size = 2
    /\ par.allow_mismatch
    /\ Finished(par_results)
    /\ \E i \in 1..Len(stream) : stream[i].contig = Missing
    /\ \E i, j \in OkCalls(par_results) :
          /\ i < j
          /\ Cardinality(par_results[i].ws) = 2
          /\ Cardinality(par_results[j].ws) = 1

\* The assembly contigs the index does not list (missing_in_pileup).
MissingInPileup ==
    {c \in Assembly : \A i \in 1..Len(stream) : stream[i].contig # c}

\* C12: with allow_mismatch = false and an assembly contig absent from the
\* index, the run of the indexed loader fails at its first call, before any
\* batch is processed, with an error that lists the missing contig ids.
C12_MissingFromIndexIsFatal ==
    (~par.allow_mismatch /\ MissingInPileup # {} /\ threads >= 1 /\ batch_size >= 1
       /\ par_results # <<>>)
        => par_results = <<Err(<<"Contig mismatch detected between pileup and assembly", MissingInPileup>>)>>

\* ------------------------------------------------------- pattern run claims
\* How the processing of the contigs of the batch the indexed loader is at
\* fails: the error of process_contig, or the panic on a contig that is not
\* in the assembly.
BatchFailures ==
    LET batch == NextBatchIds(par, stream)
        worker(c) == ProcessContig(stream, AssemblyContig(c))
    IN  {Panic : i \in {i \in 1..Len(batch) : batch[i] \notin Assembly}}
          \cup {Err(worker(batch[i]).err) :
                  i \in {i \in 1..Len(batch) : batch[i] \in Assembly /\ ~worker(batch[i]).ok}}

\* C13: when the indexed loader processes a batch in which the processing of
\* a contig fails, the result of the call is the failure of one of the failing
\* contigs, no workspace is returned, the loader is left as it was, no row is
\* added to the results, and the run never writes output.
C13_BatchErrorIsResult ==
    /\ [][(strategy = "indexed" /\ Len(par.readers) >= 1 /\ BatchFailures # {}
             /\ par_results' # par_results)
          => /\ Last(par_results)' \in BatchFailures
             /\ par' = par
             /\ rows' = rows
             /\ pc' \in {"failed", "panicked"}]_vars
    /\ [](pc \in {"failed", "panicked"} => output = [header |-> FALSE, rows |-> <<>>])

C13_Witness ==
    /\ strategy = "indexed"
    /\ pc = "failed"
    /\ LET batch == NextBatchIds(par, stream)
       IN  /\ Len(batch) = 2
           /\ \E i \in 1..2 : ProcessContig(stream, AssemblyContig(batch[i])).ok

\* The allow_mismatch value the run was started with.
RunAllowMismatch ==
    IF strategy = "sequential" THEN loader.allow_mismatch ELSE par.allow_mismatch

\* The contigs of the pileup, and those of them the assembly holds.
PileupContigs == {stream[i].contig : i \in 1..Len(stream)}

\* The input holds a fatal condition: a contig absent from the assembly while
\* mismatches are not allowed, or an assembly contig whose lines cannot be
\* read, parsed or attached.
InputFails ==
    \/ ~RunAllowMismatch /\ PileupContigs \ Assembly # {}
    \/ \E c \in PileupContigs \cap Assembly : ~ProcessContig(stream, AssemblyContig(c)).ok

\* The rows the input stands for: the assembly contigs of the pileup in the
\* order of their ids, each with one row per motif in motif list order.
RECURSIVE RowsOf(_)
RowsOf(contig_ids) ==
    IF contig_ids = {}
    THEN <<>>
    ELSE LET c == CHOOSE x \in contig_ids : \A y \in contig_ids : StrRank(x) <= StrRank(y)
         IN  MotifRows(ProcessContig(stream, AssemblyContig(c)).contig, motifs)
                \o RowsOf(contig_ids \ {c})

ExpectedRows == RowsOf(PileupContigs \cap Assembly)

\* C17: for every batch_size >= 1, every thread count, either loader and
\* every order in which the contigs of a batch complete, a run that has
\* stopped has written the rows the input stands for, and no row at all when
\* the input holds a fatal condition.
C17_RowsIndependentOfSchedule ==
    (batch_size >= 1 /\ pc \in {"done", "failed", "panicked"})
        => IF InputFails
           THEN pc # "done" /\ output.rows = <<>>
           ELSE pc = "done" /\ output.rows = ExpectedRows

\* C18: any two consecutive rows of the written output are in the order of
\* (contig id, motif string, mod_position), whatever the order of the motif
\* list.
C18_RowsSortedByContigMotifPosition ==
    pc = "done" =>
        \A i \in 1..(Len(output.rows) - 1) :
            LET r1 == output.rows[i]
                r2 == output.rows[i + 1]
            IN  \/ StrRank(r1.contig) < StrRank(r2.contig)
                \/ /\ r1.contig = r2.contig
                   /\ \/ StrRank(r1.motif.sequence) < StrRank(r2.motif.sequence)
                      \/ /\ r1.motif.sequence = r2.motif.sequence
                         /\ r1.motif.mod_position <= r2.motif.mod_position

\* ------------------------------------------------------- parallel map claims
\* The tasks that are at their reader: querying it or reading records off it.
UsingReader(i) == task[i].pc \in {"fetch", "drain"}

\* C14: no two tasks are at the same reader at the same time.  In the mutex
\* variant a task at a reader holds the mutex of reader i mod the number of
\* readers, that reader is the one it uses, and no task holds two mutexes; in
\* the thread-local variant a task uses the reader of the thread it runs on.
C14_ReadersNotShared ==
    /\ \A i, j \in DOMAIN task :
          (i # j /\ UsingReader(i) /\ UsingReader(j)) => task[i].reader # task[j].reader
    /\ variant = "mutex" =>
          /\ \A i \in DOMAIN task :
                UsingReader(i) => /\ task[i].reader = ReaderIndex(i, threads)
                                  /\ reader_lock[task[i].reader] = i
          /\ \A i \in DOMAIN task :
                Cardinality({r \in DOMAIN reader_lock : reader_lock[r] = i}) <= 1
    /\ variant = "thread_local" =>
          \A i \in DOMAIN task : UsingReader(i) => task[i].reader = task[i].thread

C14_Witness ==
    /\ variant = "mutex"
    /\ threads = 1
    /\ \E i, j \in DOMAIN task :
          /\ task[i].pc = "drain"
          /\ task[j].pc = "start"
          /\ ReaderIndex(j, threads) = task[i].reader

\* The closure calls that are fetching or processing a contig.
Running == {i \in DOMAIN task : task[i].pc \notin {"pending", "done", "failed"}}

\* C15: where every call of the map opens its own reader, the number of
\* contigs fetched and processed at the same time never exceeds `threads`.
C15_AtMostThreadsRunning ==
    (variant = "own_reader" /\ threads >= 1) => Cardinality(Running) <= threads

\* ------------------------------------------------------ two loaders claims
\* The populated contigs of all the batches of a run.
PopulatedContigs(rs) == UNION {rs[i].ws : i \in OkCalls(rs)}

\* C16: over the same contig-grouped pileup content, assembly, thresholds and
\* allow_mismatch, once both runs have ended either both have succeeded or
\* both have failed, and if they have succeeded the populated contigs of all
\* their batches (id and coverage map) are the same.
C16_LoadersAgree ==
    (Ended(results) /\ Ended(par_results))
        => /\ Finished(results) <=> Finished(par_results)
           /\ (Finished(results) /\ Finished(par_results))
                 => PopulatedContigs(results) = PopulatedContigs(par_results)

\* ------------------------------------------------------- output claims
\* The results of the next_batch() calls of the run.
RunResults == IF strategy = "sequential" THEN results ELSE par_results

\* C19: a header or a row is written only after next_batch() has returned
\* None, every call before it having returned a workspace whose rows were
\* taken up; an error of next_batch() is the last call of the run, the run
\* fails and nothing is written.
C19_OutputOnlyAfterAllBatches ==
    /\ (output.header \/ output.rows # <<>>) =>
          /\ pc = "done"
          /\ RunResults # <<>>
          /\ Last(RunResults).tag = "None"
          /\ \A i \in 1..(Len(RunResults) - 1) : RunResults[i].tag = "Ok"
          /\ Len(output.rows) = Len(rows)
          /\ {[id |-> rows[k].contig, meth |-> rows[k].obs] : k \in 1..Len(rows)}
                = PopulatedContigs(RunResults)
    /\ \A i \in 1..Len(RunResults) :
          RunResults[i].tag = "Err" =>
              /\ i = Len(RunResults)
              /\ pc = "failed"
              /\ output = [header |-> FALSE, rows |-> <<>>]

\* A run that failed on an error of next_batch() after a batch had been
\* processed.
C19_Witness ==
    /\ pc = "failed"
    /\ Len(RunResults) >= 2
    /\ Last(RunResults).tag = "Err"
    /\ rows # <<>>
    /\ output = [header |-> FALSE, rows |-> <<>>]

\* --------------------------------------------------- motif search claims
\* The window starts of find_sequence at which find_motif matches: every
\* offset has a non-zero AND of the two masks.
MatchingStarts ==
    {i \in 0..(Len(find_sequence) - Len(find_motif.sequence)) :
        \A j \in 0..(Len(find_motif.sequence) - 1) :
            BitAnd(Mask(find_sequence[i + j + 1]), Mask(find_motif.sequence[j + 1])) # 0}

\* C20: the returned vector holds exactly the values i + mod_position of the
\* matching window starts i, in increasing i and without duplicates, and is
\* empty when the sequence is shorter than the motif.
C20_IndicesAreMatchingWindows ==
    indices # None =>
        LET found == indices[1]
        IN  /\ {found[k] : k \in 1..Len(found)}
                  = {i + find_motif.mod_position : i \in MatchingStarts}
            /\ Len(found) = Cardinality(MatchingStarts)
            /\ \A k \in 1..(Len(found) - 1) : found[k] < found[k + 1]
            /\ Len(find_sequence) < Len(find_motif.sequence) => found = <<>>

\* A search that found two windows, the last possible one among them, and
\* passed over another.
C20_Witness ==
    /\ indices # None
    /\ Len(indices[1]) = 2
    /\ (Len(find_sequence) - Len(find_motif.sequence)) \in MatchingStarts
    /\ \E i \in 0..(Len(find_sequence) - Len(find_motif.sequence)) : i \notin MatchingStarts
    /\ Len(find_motif.sequence) = 2
    /\ find_motif.mod_position = 1

\* C21: a position p is returned by the search of the sequence for the
\* reverse complement of the motif if and only if |S| - 1 - p is returned by
\* the search of the reverse complement of the sequence for the motif.
C21_ReverseComplementSymmetry ==
    (rc_motif_indices # None /\ rc_sequence_indices # None) =>
        LET on_motif == {rc_motif_indices[1][k] : k \in 1..Len(rc_motif_indices[1])}
            on_sequence == {rc_sequence_indices[1][k] : k \in 1..Len(rc_sequence_indices[1])}
            n == Len(find_sequence)
        IN  \A p \in (0 - n - MaxMotifLen)..(2 * n + MaxMotifLen) :
                p \in on_motif <=> (n - 1 - p) \in on_sequence

\* Both searches made for a motif that differs from its reverse complement,
\* with a hit of the reverse complement at the last window and a window that
\* is no hit.
C21_Witness ==
    /\ rc_motif_indices # None
    /\ rc_sequence_indices # None
    /\ Len(find_motif.sequence) = 2
    /\ find_motif.mod_position = 0
    /\ reverse_complement(find_motif).sequence # find_motif.sequence
    /\ Len(find_sequence) = 3
    /\ rc_motif_indices[1] = <<2>>
    /\ rc_sequence_indices[1] = <<0>>

\* --------------------------------------------------- record filter claims
\* C22: a coverage attached by either loader is that of its record, with
\* n_modified <= n_valid_cov, n_valid_cov >= min_valid_read_coverage and
\* n_valid_cov / (n_valid_cov + n_diff) >= min_valid_cov_to_diff_fraction; a
\* record with n_valid_cov + n_diff = 0 is never attached, a record failing a
\* threshold contributes nothing, and a kept record with n_modified >
\* n_valid_cov gives an error and no coverage.
C22_AttachedPassesFilters ==
    filter_pc.outcome \notin {"idle", "pending"} =>
        LET r == pileup_record
            p == thresholds.min_valid_cov_to_diff_fraction[1]
            q == thresholds.min_valid_cov_to_diff_fraction[2]
            kept == /\ r.n_valid_cov >= thresholds.min_valid_read_coverage
                    /\ r.n_valid_cov + r.n_diff # 0
                    /\ r.n_valid_cov * q >= p * (r.n_valid_cov + r.n_diff)
        IN  /\ \A c \in attached :
                  /\ c = [n_modified |-> r.n_modified, n_valid_cov |-> r.n_valid_cov]
                  /\ c.n_modified <= c.n_valid_cov
                  /\ kept
            /\ r.n_valid_cov + r.n_diff = 0 => attached = {}
            /\ ~kept => (attached = {} /\ filter_pc.outcome = "skipped")
            /\ (kept /\ r.n_modified > r.n_valid_cov)
                  => (attached = {} /\ filter_pc.outcome = "error")
            /\ (kept /\ r.n_modified <= r.n_valid_cov)
                  => (attached # {} /\ filter_pc.outcome = "attached")

\* The indexed loader has met a record that passes both filters and has more
\* modified than valid reads.
C22_Witness ==
    /\ filter_pc = [by |-> "process_contig", outcome |-> "error"]
    /\ pileup_record = [n_modified |-> 3, n_valid_cov |-> 2, n_diff |-> 0]
    /\ thresholds.min_valid_read_coverage = 2
    /\ thresholds.min_valid_cov_to_diff_fraction = <<4, 5>>
    /\ attached = {}

\* ------------------------------------------------- motif clustering claims
\* C23: for two motifs of one mod_type and one mod_position whose lengths
\* differ by k > 0, edit_distance returns the Hamming distance of the two
\* sequences after the shorter one has been padded with k N at its end.
C23_LengthDifferencePadded ==
    (/\ edit # None
     /\ cluster_input[1].mod_position = cluster_input[2].mod_position
     /\ Len(cluster_input[1].sequence) # Len(cluster_input[2].sequence)) =>
        LET m1 == cluster_input[1]
            m2 == cluster_input[2]
            n == IF Len(m1.sequence) > Len(m2.sequence)
                 THEN Len(m1.sequence) ELSE Len(m2.sequence)
            padded(m) == m.sequence \o Repeat("N", n - Len(m.sequence))
            mismatches == {k \in 1..n :
                              to_possible_nucleotides(padded(m1)[k])
                                  \cap to_possible_nucleotides(padded(m2)[k]) = {}}
        IN  edit[1] = OkValue(Cardinality(mismatches))

\* C24: for two motifs of one mod_type and one length whose mod_positions
\* differ by d # 0, edit_distance returns |d| plus the Hamming distance of the
\* two sequences after both have been padded with N so that the modified
\* bases are in the same column.
C24_PositionDifferencePadded ==
    (/\ edit # None
     /\ cluster_input[1].mod_position # cluster_input[2].mod_position
     /\ Len(cluster_input[1].sequence) = Len(cluster_input[2].sequence)) =>
        LET m1 == cluster_input[1]
            m2 == cluster_input[2]
            d == m1.mod_position - m2.mod_position
            abs_d == IF d < 0 THEN 0 - d ELSE d
            n == Len(m1.sequence) + abs_d
            front(m, other) ==
                IF m.mod_position < other.mod_position
                THEN Repeat("N", abs_d) \o m.sequence
                ELSE m.sequence \o Repeat("N", abs_d)
            mismatches == {k \in 1..n :
                              to_possible_nucleotides(front(m1, m2)[k])
                                  \cap to_possible_nucleotides(front(m2, m1)[k]) = {}}
        IN  edit[1] = OkValue(Cardinality(mismatches) + abs_d)

\* C25: two motifs of the list that have one mod_type, one of them a child
\* motif of the other, are in the same cluster: every entry of the result
\* that lists one of them lists the other.
C25_ChildAndParentShareCluster ==
    (first_run # None /\ first_run[1].tag = "Ok") =>
        \A i, j \in 1..Len(cluster_input) :
            LET m1 == cluster_input[i]
                m2 == cluster_input[j]
            IN  (/\ m1.mod_type = m2.mod_type
                 /\ is_child_motif(m1, m2) \/ is_child_motif(m2, m1)) =>
                    \A e \in first_run[1].entries :
                        m1 \in Elements(e.members) <=> m2 \in Elements(e.members)

\* C26: clustering the representatives of a first run returns each of them
\* as its own representative, with itself as its only motif.
C26_ClusteringIsIdempotent ==
    second_run # None =>
        /\ second_run[1].tag = "Ok"
        /\ {e.rep : e \in second_run[1].entries} = {e.rep : e \in first_run[1].entries}
        /\ \A e \in second_run[1].entries : e.members = <<e.rep>>

\* C27: in a result of motif_clustering, the representative of a cluster
\* whose motifs of minimum length tie is made of one sub-cluster of the tied
\* motifs: column j of the representative is the IUPAC base whose nucleotide
\* set is the union of the nucleotide sets in column j of the sub-cluster, and
\* its mod_type and mod_position are those of the sub-cluster; a sub-cluster
\* has one representative; GATCC_m_3, GATCR_m_3 and GATCG_m_3 form one
\* cluster with a single representative of mod_type m and mod_position 3.
C27_TiedClusterRepresentative ==
    (first_run # None /\ first_run[1].tag = "Ok") =>
        LET entries == first_run[1].entries
            scenario == {Motif(<<"G", "A", "T", "C", "C">>, "m", 3),
                         Motif(<<"G", "A", "T", "C", "R">>, "m", 3),
                         Motif(<<"G", "A", "T", "C", "G">>, "m", 3)}
        IN  /\ \A e \in entries :
                  Len(SmallestMotifs(e.members)) > 1 =>
                      /\ Elements(e.sub) # {}
                      /\ Elements(e.sub) \subseteq Elements(SmallestMotifs(e.members))
                      /\ \A m \in Elements(e.sub) :
                             /\ Len(e.rep.sequence) = Len(m.sequence)
                             /\ e.rep.mod_type = m.mod_type
                             /\ e.rep.mod_position = m.mod_position
                      /\ \A j \in 1..Len(e.rep.sequence) :
                             to_possible_nucleotides(e.rep.sequence[j]) =
                                 UNION {to_possible_nucleotides(m.sequence[j]) :
                                           m \in Elements(e.sub)}
            /\ \A e1, e2 \in entries :
                  (e1.members = e2.members /\ e1.sub = e2.sub) => e1.rep = e2.rep
            /\ (Len(cluster_input) = 3 /\ Elements(cluster_input) = scenario) =>
                  /\ Cardinality(entries) = 1
                  /\ \A e \in entries :
                         /\ Elements(e.members) = scenario
                         /\ e.rep.mod_type = "m"
                         /\ e.rep.mod_position = 3

\* GATCC_m_3, GATCR_m_3 and GATCG_m_3 have been clustered: they tie, form one
\* sub-cluster, and their representative is GATCV_m_3.
C27_Witness ==
    /\ cluster_input = <<Motif(<<"G", "A", "T", "C", "C">>, "m", 3),
                         Motif(<<"G", "A", "T", "C", "R">>, "m", 3),
                         Motif(<<"G", "A", "T", "C", "G">>, "m", 3)>>
    /\ first_run # None
    /\ first_run[1].tag = "Ok"
    /\ \E e \in first_run[1].entries :
           /\ e.rep = Motif(<<"G", "A", "T", "C", "V">>, "m", 3)
           /\ Len(e.sub) = 3

\* C28: every cluster and every sub-cluster has one mod_type, one sequence
\* length and one mod_position, motif_clustering returns no error of
\* collapse_motifs, and hamming_distance does not panic.
C28_ClustersAreHomogeneous ==
    LET same(vector) ==
            \A m1, m2 \in Elements(vector) :
                /\ m1.mod_type = m2.mod_type
                /\ Len(m1.sequence) = Len(m2.sequence)
                /\ m1.mod_position = m2.mod_position
    IN  /\ edit # None => edit[1].tag # "Panic"
        /\ first_run # None =>
               /\ first_run[1].tag \notin {"Panic", "Err"}
               /\ \A e \in first_run[1].entries : same(e.members) /\ same(e.sub)

\* ------------------------------------------------ read-level extraction claims
\* The lines the closure calls have sent.
SentLines ==
    UNION {{Line(c, k) : k \in 1..contig_workers[c].sent} : c \in DOMAIN contig_workers}

\* C29: when extract_read_methylation_pattern has returned Ok, the output
\* file holds the header line followed by every sent line, each once; and a
\* failed writer thread never goes with a return of Ok.
C29_OkMeansEveryLineWritten ==
    /\ extract_pc = "Ok" =>
          /\ output_file.exists
          /\ Len(output_file.lines) = 1 + Cardinality(SentLines)
          /\ output_file.lines[1] = HeaderLine
          /\ {output_file.lines[k] : k \in 2..Len(output_file.lines)} = SentLines
    /\ writer_thread.result = "Err" => extract_pc # "Ok"

\* ----------------------------------------------------- motif start claims
\* C30: for every hit of the motif in a read, on either strand, the motif
\* start is computed without underflow and is an index with
\* start + motif_length <= sequence_length.
C30_MotifStartWithinRead ==
    motif_hits # None =>
        \A k \in 1..Len(motif_hits[1]) :
            LET start == motif_hits[1][k].motif_start
            IN  /\ start.tag = "Ok"
                /\ start.value >= 0
                /\ start.value + Len(find_motif.sequence) <= Len(find_sequence)

====
